---------------------------- MODULE Spec2Model ----------------------------
(***************************************************************************)
(* Model of the Kimi-K2 chat front end (src/frontend/app.js).              *)
(*                                                                         *)
(* The first part models ChatApp.formatContent, the markdown-to-HTML       *)
(* pipeline: a message text goes through the already-HTML bypass or        *)
(* through line-break normalisation, the protection passes (fenced code,   *)
(* unfenced code, inline code), the formatter passes, restoration of the   *)
(* protected code and the final unformatted-code pass.  Texts are TLA+     *)
(* strings; every regular expression of the source is an operator that     *)
(* computes the match the JavaScript engine finds (leftmost start, greedy  *)
(* or lazy quantifiers with the backtracking that decides the match).      *)
(***************************************************************************)
EXTENDS Integers, Sequences, FiniteSets, TLC

VARIABLES
    input,        \* the argument of formatContent (message.content)
    content,      \* the local variable `content` of formatContent
    codeBlocks,   \* the array codeBlocks
    inlineCodes,  \* the array inlineCodes
    fenced,       \* how many entries of codeBlocks the fence pass pushed
    pc,           \* the statement of formatContent that runs next
    rs,            \* the statement of streamMessageContent that runs next
    usage,         \* whether the message comes with usage statistics
    contentDiv,    \* the text of contentDiv.innerHTML
    pending,       \* the tokens of the loop that are not appended yet
    attached,      \* whether messageElement is a child of chatContainer
    contentWrites, \* how many assignments to contentDiv.innerHTML were made
    elementWrites, \* how many assignments to messageElement.innerHTML were made
    messages,      \* ChatApp.messages: the messages exchanged, in order
    history,       \* the messages the database holds for the session, in order
    request,       \* the messages of the request that was sent last
    contextCache,  \* ChatApp.contextCache (<<>> for null)
    cacheAge,      \* Date.now() - contextCacheTime in ms, from CacheLifetime on as CacheLifetime
    retryCount,    \* the parameter retryCount of the running callChatAPI
    waits,         \* the delays callChatAPI awaited for the current request
    chatPc,        \* the statement of sendMessage that runs next
    isLoading,     \* ChatApp.isLoading
    activeRequest, \* ChatApp.activeRequest (<<>> for null)
    running,       \* the calls of sendMessage that are between line 1005 and line 1035
    calls,         \* the parity of the number of calls of sendMessage, and
                   \* whether a call returned at line 985 or 990 since line 1005 ran
    occupied,      \* the ports another program listens on
    servers,       \* the objects app.listen returned, in order
    processServer, \* process.server: an index of servers (0 for undefined)
    exited,        \* whether process.exit was called
    reply,         \* the response to the request handled last
    forwarded,     \* whether the request handled last was posted to Ollama
    dbSessions,    \* the object store `sessions`, most recent activity first
    dbMessages,    \* the object store `messages`, in order of their ids
    sessions,      \* ChatHistory.sessions
    currentSessionId, \* ChatHistory.currentSessionId (0 for null)
    view,          \* the messages the chat container shows, in order
    lastOp,        \* which handler of the session code ran last: initializeApp
                   \* (with the number of sessions it found), deleteSession
                   \* (with 1 when the session was the current one) or another
    nextId,        \* the number that stands for the id of the next session
    sendOp,        \* the call of sendMessage that awaits its reply
    renameOp,      \* the call of renameSession that is running
    activityOp     \* the call of updateSessionActivity that is running

pipelineVars == <<input, content, codeBlocks, inlineCodes, fenced, pc>>

rendererVars ==
    <<rs, usage, contentDiv, pending, attached, contentWrites, elementWrites>>

chatVars ==
    <<messages, history, request, contextCache, cacheAge, retryCount, waits, chatPc,
      isLoading, activeRequest, running, calls>>

serverVars == <<occupied, servers, processServer, exited, reply, forwarded>>

sessionVars ==
    <<dbSessions, dbMessages, sessions, currentSessionId, view, lastOp, nextId,
      sendOp, renameOp, activityOp>>

vars == <<pipelineVars, rendererVars, chatVars, serverVars, sessionVars>>

---------------------------------------------------------------------------
(* Strings and character classes *)

At(s, i) == IF i >= 1 /\ i <= Len(s) THEN SubSeq(s, i, i) ELSE ""

\* s.substring(i - 1, j): the characters i..j, the indices clamped to the text
Sub(s, i, j) ==
    LET a == IF i < 1 THEN 1 ELSE i
        b == IF j > Len(s) THEN Len(s) ELSE j
    IN  IF b < a THEN "" ELSE SubSeq(s, a, b)

From(s, i) == Sub(s, i, Len(s))

StartsAt(s, i, lit) ==
    /\ i >= 1
    /\ i + Len(lit) - 1 <= Len(s)
    /\ SubSeq(s, i, i + Len(lit) - 1) = lit

\* F applied to x: the value x under the name F gives it
Bind(x, F(_)) == F(x)

\* the least number of a..b that satisfies P, b + 1 when none does
First(a, b, P(_)) ==
    IF \E p \in a..b : P(p)
    THEN CHOOSE p \in a..b : P(p) /\ \A q \in a..(p - 1) : ~P(q)
    ELSE b + 1

\* the greatest number of a..b that satisfies P, a - 1 when none does
Last(a, b, P(_)) ==
    IF \E p \in a..b : P(p)
    THEN CHOOSE p \in a..b : P(p) /\ \A q \in (p + 1)..b : ~P(q)
    ELSE a - 1

\* String.prototype.indexOf(lit, i), 1-based; 0 when lit does not occur
IndexFrom(s, lit, i) ==
    Bind(Len(s) - Len(lit) + 1, LAMBDA b :
        Bind(First(i, b, LAMBDA q : StartsAt(s, q, lit)), LAMBDA p :
        IF p > b THEN 0 ELSE p))

Includes(s, lit) == IndexFrom(s, lit, 1) # 0

LowerChars == {"a", "b", "c", "d", "e", "f", "g", "h", "i", "j", "k", "l", "m",
               "n", "o", "p", "q", "r", "s", "t", "u", "v", "w", "x", "y", "z"}

UpperChars == {"A", "B", "C", "D", "E", "F", "G", "H", "I", "J", "K", "L", "M",
               "N", "O", "P", "Q", "R", "S", "T", "U", "V", "W", "X", "Y", "Z"}

DigitChars == {"0", "1", "2", "3", "4", "5", "6", "7", "8", "9"}

\* the class \w
WordChars == LowerChars \cup UpperChars \cup DigitChars \cup {"_"}

\* the class \s
SpaceChars == {" ", "\t", "\n", "\r"}

\* what `.` does not match
LineTerminators == {"\n", "\r"}

\* The backtick.  A TLA+ string literal cannot hold the character U+0060, so
\* the model writes it as a caret; no message of the model holds a caret.
Backtick == "^"

\* the fence marker, three backticks
Fence == Backtick \o Backtick \o Backtick

IsWord(s, i) == At(s, i) \in WordChars

IsSpace(s, i) == At(s, i) \in SpaceChars

\* `.`: a character that is no line terminator
IsDot(s, i) == i >= 1 /\ i <= Len(s) /\ At(s, i) \notin LineTerminators

\* the index of the last character of the run, from i, of characters that
\* satisfy InRun; i - 1 when the run is empty
RunEnd(s, i, InRun(_)) ==
    IF i > Len(s) THEN i - 1 ELSE First(i, Len(s), LAMBDA p : ~InRun(p)) - 1

\* \s* from i: the index of the last character of the run, i - 1 when empty
SpaceRunEnd(s, i) == RunEnd(s, i, LAMBDA p : IsSpace(s, p))

\* \w* from i
WordRunEnd(s, i) == RunEnd(s, i, LAMBDA p : IsWord(s, p))

\* .* from i: the index of the last character before the line terminator
LineEnd(s, i) == RunEnd(s, i, LAMBDA p : IsDot(s, p))

\* ^ under the m flag
AtLineStart(s, i) == i = 1 \/ At(s, i - 1) \in LineTerminators

TrimStart(s) == From(s, SpaceRunEnd(s, 1) + 1)

TrimEnd(s) == Sub(s, 1, Last(1, Len(s), LAMBDA p : ~IsSpace(s, p)))

\* String.prototype.trim
Trim(s) == TrimEnd(TrimStart(s))

RECURSIVE ReplaceAllLit(_, _, _)
\* s.replace(/lit/g, rep) for a pattern and a replacement without special characters
ReplaceAllLit(s, lit, rep) ==
    Bind(IndexFrom(s, lit, 1), LAMBDA k :
        IF k = 0 THEN s
        ELSE Sub(s, 1, k - 1) \o rep \o ReplaceAllLit(From(s, k + Len(lit)), lit, rep))

RECURSIVE SplitOn(_, _)
\* s.split(sep) for a one-character separator
SplitOn(s, sep) ==
    Bind(IndexFrom(s, sep, 1), LAMBDA k :
        IF k = 0 THEN <<s>>
        ELSE <<Sub(s, 1, k - 1)>> \o SplitOn(From(s, k + 1), sep))

RECURSIVE Join(_, _)
\* Array.prototype.join
Join(parts, sep) ==
    IF Len(parts) = 0 THEN ""
    ELSE IF Len(parts) = 1 THEN parts[1]
    ELSE parts[1] \o sep \o Join(Tail(parts), sep)

DigitOf == <<"0", "1", "2", "3", "4", "5", "6", "7", "8", "9">>

RECURSIVE NumStr(_)
\* the decimal text of a number, as a template literal prints it
NumStr(n) == IF n < 10 THEN DigitOf[n + 1] ELSE NumStr(n \div 10) \o DigitOf[(n % 10) + 1]

\* div.textContent = text; return div.innerHTML: the serialisation writes
\* the ampersand, the less-than and the greater-than sign as entities
escapeHtml(text) ==
    ReplaceAllLit(ReplaceAllLit(ReplaceAllLit(text, "&", "&amp;"), "<", "&lt;"), ">", "&gt;")

---------------------------------------------------------------------------
(* The already-HTML bypass *)

\* /<\/?[a-z][\s\S]*>/i .test(content)
htmlTagPattern(s) ==
    \E i \in 1..Len(s) :
        /\ At(s, i) = "<"
        /\ LET j == IF At(s, i + 1) = "/" THEN i + 2 ELSE i + 1
           IN  /\ At(s, j) \in LowerChars \cup UpperChars
               /\ IndexFrom(s, ">", j + 1) # 0

hasHTMLTags(s) == htmlTagPattern(s)

\* the four entity replacements of the bypass, in the source's order
cleanedContent(s) ==
    ReplaceAllLit(ReplaceAllLit(ReplaceAllLit(ReplaceAllLit(s,
        "&lt;", "<"), "&gt;", ">"), "&amp;", "&"), "&quot;", "\"")

\* content.replace(/\r\n/g, '\n').replace(/\r/g, '\n')
normalizeLineBreaks(s) == ReplaceAllLit(ReplaceAllLit(s, "\r\n", "\n"), "\r", "\n")

---------------------------------------------------------------------------
(* Protection passes *)

codeBlockPlaceholder(n) == "__CODE_BLOCK_" \o NumStr(n) \o "__"

inlineCodePlaceholder(n) == "__INLINE_CODE_" \o NumStr(n) \o "__"

StripLeadingNewlines(s) == From(s, RunEnd(s, 1, LAMBDA p : At(s, p) = "\n") + 1)

StripTrailingNewlines(s) == Sub(s, 1, Last(1, Len(s), LAMBDA p : At(s, p) # "\n"))

\* code.replace(/^\n+/, '').replace(/\n+$/, '')
cleanCode(code) == StripTrailingNewlines(StripLeadingNewlines(code))

\* The match of /FENCE(\w+)?\s*\n?([\s\S]*?)FENCE/ that starts at p: the greedy
\* language and blank run, then the lazy body up to the next fence.
\* e is the index after the match, 0 when there is none.
FenceMatch(s, p) ==
    IF ~StartsAt(s, p, Fence) THEN [e |-> 0, language |-> "", code |-> ""]
    ELSE Bind(WordRunEnd(s, p + 3), LAMBDA w :
        Bind(SpaceRunEnd(s, w + 1) + 1, LAMBDA b :
        Bind(IndexFrom(s, Fence, b), LAMBDA c :
        IF c = 0 THEN [e |-> 0, language |-> "", code |-> ""]
             ELSE [e |-> c + 3, language |-> Sub(s, p + 3, w), code |-> Sub(s, b, c - 1)])))

fencedBlock(language, code) ==
    Bind(IF language = "" THEN "text" ELSE language, LAMBDA lang :
        "<pre><code class=\"language-" \o lang \o "\">"
            \o escapeHtml(cleanCode(code)) \o "</code></pre>")

RECURSIVE protectFences(_, _, _)
\* content.replace(/FENCE(\w+)?\s*\n?([\s\S]*?)FENCE/g, callback) from index i on
protectFences(s, i, blocks) ==
    Bind(IndexFrom(s, Fence, i), LAMBDA p :
        Bind(FenceMatch(s, p), LAMBDA m :
        IF p = 0 \/ m.e = 0 THEN [text |-> From(s, i), blocks |-> blocks]
        ELSE Bind(protectFences(s, m.e, Append(blocks, fencedBlock(m.language, m.code))), LAMBDA rest :
        [text |-> Sub(s, i, p - 1) \o codeBlockPlaceholder(Len(blocks)) \o rest.text,
                  blocks |-> rest.blocks])))

\* the alternatives that open one repetition of the unfenced-code pattern
codeLineKeywords ==
    <<"#include", "class", "public:", "private:", "protected:", "int", "void",
      "string", "const", "return", "if", "for", "while", "switch", "namespace",
      "using", "{", "}", ";", "//", "/*", "*/", "#define", "template", "typedef">>

RECURSIVE KeywordLenFrom(_, _, _)
\* the length of the first alternative, from the k-th on, that matches at p; 0 for none
KeywordLenFrom(s, p, k) ==
    IF k > Len(codeLineKeywords) THEN 0
    ELSE IF StartsAt(s, p, codeLineKeywords[k]) THEN Len(codeLineKeywords[k])
    ELSE KeywordLenFrom(s, p, k + 1)

RECURSIVE RepetitionsEnd(_, _, _)
RECURSIVE DotPlusEnd(_, _, _, _)
RECURSIVE AfterDotPlus(_, _, _)
\* (?:(?:keyword).+\n?){3,} continued at p after n repetitions: the index after
\* the match the backtracking engine settles on, 0 when it fails.  Another
\* repetition is tried first; when none matches the group ends here, which
\* succeeds once three repetitions are done.
RepetitionsEnd(s, p, n) ==
    Bind(KeywordLenFrom(s, p, 1), LAMBDA k :
        Bind(LineEnd(s, p + k), LAMBDA le :
        IF k = 0 \/ le < p + k
        THEN (IF n >= 3 THEN p ELSE 0)
        ELSE Bind(DotPlusEnd(s, n, p + k, le), LAMBDA r :
        IF r # 0 THEN r ELSE (IF n >= 3 THEN p ELSE 0))))

\* what follows .+ when it ends at e: \n? takes the newline when there is
\* one, and gives it back on failure; then the next repetition, or the end
AfterDotPlus(s, n, e) ==
    Bind(IF At(s, e + 1) = "\n" THEN RepetitionsEnd(s, e + 2, n + 1) ELSE 0, LAMBDA r1 :
        IF r1 # 0 THEN r1 ELSE RepetitionsEnd(s, e + 1, n + 1))

\* .+ of a repetition, tried from the longest (to the line's end le) down to
\* one character (lo): the first length after which the rest matches
DotPlusEnd(s, n, lo, le) ==
    Bind(Last(lo, le, LAMBDA q : AfterDotPlus(s, n, q) # 0), LAMBDA e :
        IF e < lo THEN 0 ELSE AfterDotPlus(s, n, e))

\* The match of /(?:^|\n)((?:(?:keyword).+\n?){3,})/gm that starts at p:
\* g is where the captured group starts, e the index after the match (0: none).
UnfencedMatch(s, p) ==
    Bind(IF AtLineStart(s, p) THEN RepetitionsEnd(s, p, 0) ELSE 0, LAMBDA viaStart :
        Bind(IF At(s, p) = "\n" THEN RepetitionsEnd(s, p + 1, 0) ELSE 0, LAMBDA viaNewline :
        IF viaStart # 0 THEN [e |-> viaStart, g |-> p]
        ELSE IF viaNewline # 0 THEN [e |-> viaNewline, g |-> p + 1]
        ELSE [e |-> 0, g |-> 0]))

\* the leftmost start, from i on, of a match of the unfenced-code pattern; 0 for none
FindUnfenced(s, i) ==
    Bind(First(i, Len(s), LAMBDA q : UnfencedMatch(s, q).e # 0), LAMBDA p :
        IF p > Len(s) THEN 0 ELSE p)

RECURSIVE protectUnfenced(_, _, _)
\* the replace of lines 1388-1397 from index i on: a match that holds no
\* placeholder becomes a placeholder and a language-cpp block
protectUnfenced(s, i, blocks) ==
    Bind(FindUnfenced(s, i), LAMBDA p :
        IF p = 0 THEN [text |-> From(s, i), blocks |-> blocks]
        ELSE Bind(UnfencedMatch(s, p), LAMBDA m :
        Bind(Sub(s, m.g, m.e - 1), LAMBDA codeContent :
        Bind(Includes(codeContent, "__CODE_BLOCK_"), LAMBDA kept :
        Bind("<pre><code class=\"language-cpp\">" \o escapeHtml(Trim(codeContent)) \o "</code></pre>", LAMBDA block :
        Bind(protectUnfenced(s, m.e, IF kept THEN blocks ELSE Append(blocks, block)), LAMBDA rest :
        [text |-> Sub(s, i, p - 1)
                               \o (IF kept THEN Sub(s, p, m.e - 1)
                                   ELSE codeBlockPlaceholder(Len(blocks)))
                               \o rest.text,
                  blocks |-> rest.blocks]))))))

\* The match of /BT([^BT\n]+)BT/ that starts at p (BT the backtick): the index
\* after the closing backtick, 0 when there is no match.
InlineRunEnd(s, i) == RunEnd(s, i, LAMBDA p : At(s, p) \notin {Backtick, "\n"})

InlineMatch(s, p) ==
    Bind(InlineRunEnd(s, p + 1), LAMBDA r :
        IF At(s, p) = Backtick /\ r >= p + 1 /\ At(s, r + 1) = Backtick THEN r + 2 ELSE 0)

FindInline(s, i) ==
    Bind(First(i, Len(s), LAMBDA q : InlineMatch(s, q) # 0), LAMBDA p :
        IF p > Len(s) THEN 0 ELSE p)

RECURSIVE protectInline(_, _, _)
\* the replace of lines 1401-1405 from index i on
protectInline(s, i, codes) ==
    Bind(FindInline(s, i), LAMBDA p :
        IF p = 0 THEN [text |-> From(s, i), codes |-> codes]
        ELSE Bind(InlineMatch(s, p), LAMBDA e :
        Bind("<code>" \o escapeHtml(Sub(s, p + 1, e - 2)) \o "</code>", LAMBDA code :
        Bind(protectInline(s, e, Append(codes, code)), LAMBDA rest :
        [text |-> Sub(s, i, p - 1) \o inlineCodePlaceholder(Len(codes)) \o rest.text,
                  codes |-> rest.codes]))))

---------------------------------------------------------------------------
(* Formatter passes: tables *)

\* line.includes('|') && line.split('|').length > 2
isTableRow(line) == Includes(line, "|") /\ Len(SplitOn(line, "|")) > 2

\* row.split('|').slice(1, -1).map(cell => cell.trim())
rowCells(row) ==
    Bind(SplitOn(row, "|"), LAMBDA parts :
        [k \in 1..(Len(parts) - 2) |-> Trim(parts[k + 1])])

RECURSIVE tableCells(_, _)
\* the th or td elements of one row
tableCells(cells, tag) ==
    IF Len(cells) = 0 THEN ""
    ELSE "<" \o tag \o ">" \o escapeHtml(cells[1]) \o "</" \o tag \o ">"
             \o tableCells(Tail(cells), tag)

RECURSIVE tableBodyRows(_, _)
\* dataRows.forEach: a row is emitted only with as many cells as the header
tableBodyRows(dataRows, width) ==
    IF Len(dataRows) = 0 THEN ""
    ELSE Bind(rowCells(dataRows[1]), LAMBDA cells :
        (IF Len(cells) = width THEN "<tr>" \o tableCells(cells, "td") \o "</tr>" ELSE "")
                 \o tableBodyRows(Tail(dataRows), width))

processTable(rows) ==
    IF Len(rows) < 2 THEN Join(rows, "\n")
    ELSE IF rows[2] = "" \/ ~Includes(rows[2], "-") THEN Join(rows, "\n")
    ELSE Bind(rowCells(rows[1]), LAMBDA headerCells :
        Bind(SubSeq(rows, 3, Len(rows)), LAMBDA dataRows :
        "<table class=\"markdown-table\">"
                 \o "<thead><tr>" \o tableCells(headerCells, "th") \o "</tr></thead>"
                 \o (IF Len(dataRows) > 0
                     THEN "<tbody>" \o tableBodyRows(dataRows, Len(headerCells)) \o "</tbody>"
                     ELSE "")
                 \o "</table>"))

RECURSIVE tableLines(_, _, _, _)
\* the loop of formatTables over lines[i..], with the local variables
\* inTable and tableRows; the result array
tableLines(lines, i, inTable, tableRows) ==
    IF i > Len(lines)
    THEN (IF inTable /\ Len(tableRows) > 0 THEN <<processTable(tableRows)>> ELSE <<>>)
    ELSE Bind(Trim(lines[i]), LAMBDA line :
        IF isTableRow(line)
             THEN tableLines(lines, i + 1, TRUE,
                             IF inTable THEN Append(tableRows, line) ELSE <<line>>)
             ELSE (IF inTable THEN <<processTable(tableRows)>> ELSE <<>>)
                      \o <<line>> \o tableLines(lines, i + 1, FALSE, <<>>))

formatTables(s) == Join(tableLines(SplitOn(s, "\n"), 1, FALSE, <<>>), "\n")

---------------------------------------------------------------------------
(* Formatter passes: headers, lists, blockquotes, horizontal rules *)

\* the index of the last character of the run, from i, of characters of set cs
RunEndOf(s, i, cs) == RunEnd(s, i, LAMBDA p : At(s, p) \in cs)

\* \s+(.+)$ with the blanks at a..b: \s+ takes the whole run and gives
\* characters back until `.` can match; the index where (.+) starts, 0 for none
TextStartAfterSpace(s, a, b) ==
    Bind(Last(a, b, LAMBDA q : IsDot(s, q + 1)), LAMBDA k :
        IF k < a THEN 0 ELSE k + 1)

\* The match of /^(#{1,6})\s+(.+)$/gm that starts at p: level is the number of
\* hashes, t the index where the text starts, e the index after the match.
HeaderMatch(s, p) ==
    Bind(RunEndOf(s, p, {"#"}), LAMBDA h :
        Bind(h - p + 1, LAMBDA n :
        Bind(TextStartAfterSpace(s, h + 1, SpaceRunEnd(s, h + 1)), LAMBDA t :
        IF AtLineStart(s, p) /\ n >= 1 /\ n <= 6 /\ t # 0
        THEN [e |-> LineEnd(s, t) + 1, level |-> n, t |-> t]
        ELSE [e |-> 0, level |-> 0, t |-> 0])))

\* /[<>{}\[\];()]/.test(contentText) || startsWith('include') || startsWith('define')
looksLikeCode(contentText) ==
    \/ \E i \in 1..Len(contentText) :
           At(contentText, i) \in {"<", ">", "{", "}", "[", "]", ";", "(", ")"}
    \/ StartsAt(contentText, 1, "include")
    \/ StartsAt(contentText, 1, "define")

headerElement(s, p, m) ==
    Bind(Trim(Sub(s, m.t, m.e - 1)), LAMBDA contentText :
        IF looksLikeCode(contentText)
        THEN "<p>" \o escapeHtml(Sub(s, p, m.e - 1)) \o "</p>"
        ELSE "<h" \o NumStr(m.level) \o ">" \o contentText \o "</h" \o NumStr(m.level) \o ">")

RECURSIVE formatHeadersFrom(_, _)
formatHeadersFrom(s, i) ==
    Bind(First(i, Len(s), LAMBDA q : HeaderMatch(s, q).e # 0), LAMBDA p :
        IF p > Len(s) THEN From(s, i)
        ELSE Bind(HeaderMatch(s, p), LAMBDA m :
        Sub(s, i, p - 1) \o headerElement(s, p, m) \o formatHeadersFrom(s, m.e)))

\* the replace of lines 1411-1420
formatHeaders(s) == formatHeadersFrom(s, 1)

\* trimmed.match(/^[-*+]\s+(.+)/): the line is trimmed, so text follows the blanks
isUnorderedItem(trimmed) ==
    At(trimmed, 1) \in {"-", "*", "+"} /\ IsSpace(trimmed, 2) /\ Len(trimmed) >= 3

\* trimmed.match(/^\d+\.\s+(.+)/)
isOrderedItem(trimmed) ==
    Bind(RunEndOf(trimmed, 1, DigitChars), LAMBDA d :
        d >= 1 /\ At(trimmed, d + 1) = "." /\ IsSpace(trimmed, d + 2) /\ Len(trimmed) >= d + 3)

\* trimmed.replace(/^[-*+]\s+/, '')
unorderedText(trimmed) == From(trimmed, SpaceRunEnd(trimmed, 2) + 1)

\* trimmed.replace(/^\d+\.\s+/, '')
orderedText(trimmed) ==
    From(trimmed, SpaceRunEnd(trimmed, RunEndOf(trimmed, 1, DigitChars) + 2) + 1)

RECURSIVE listItemElements(_)
listItemElements(items) ==
    IF Len(items) = 0 THEN ""
    ELSE "<li>" \o items[1] \o "</li>" \o listItemElements(Tail(items))

processListItems(items, type) ==
    Bind(IF type = "ol" THEN "ol" ELSE "ul", LAMBDA tag :
        "<" \o tag \o " class=\"markdown-list\">" \o listItemElements(items)
            \o "</" \o tag \o ">")

RECURSIVE listLinesMerging(_, _, _, _, _)
\* the loop of formatLists without the listType test of lines 1639 and 1653:
\* a line of the other marker type is added to the open list
listLinesMerging(lines, i, inList, listItems, listType) ==
    IF i > Len(lines)
    THEN (IF inList /\ Len(listItems) > 0
          THEN <<processListItems(listItems, listType)>> ELSE <<>>)
    ELSE Bind(lines[i], LAMBDA line :
        Bind(Trim(line), LAMBDA trimmed :
        Bind(IF isUnorderedItem(trimmed) THEN "ul" ELSE IF isOrderedItem(trimmed) THEN "ol" ELSE "", LAMBDA type :
        Bind(IF type = "ul" THEN unorderedText(trimmed) ELSE orderedText(trimmed), LAMBDA text :
        IF type = ""
             THEN (IF inList THEN <<processListItems(listItems, listType)>> ELSE <<>>)
                      \o <<line>> \o listLinesMerging(lines, i + 1, FALSE, <<>>, "")
             ELSE IF ~inList
             THEN listLinesMerging(lines, i + 1, TRUE, <<text>>, type)
             ELSE listLinesMerging(lines, i + 1, TRUE, Append(listItems, text), listType)))))

RECURSIVE listLines(_, _, _, _, _)
\* the loop of formatLists over lines[i..], with the local variables inList,
\* listItems and listType ("" for null); the result array
listLines(lines, i, inList, listItems, listType) ==
    IF i > Len(lines)
    THEN (IF inList /\ Len(listItems) > 0
          THEN <<processListItems(listItems, listType)>> ELSE <<>>)
    ELSE Bind(lines[i], LAMBDA line :
        Bind(Trim(line), LAMBDA trimmed :
        Bind(IF isUnorderedItem(trimmed) THEN "ul" ELSE IF isOrderedItem(trimmed) THEN "ol" ELSE "", LAMBDA type :
        Bind(IF type = "ul" THEN unorderedText(trimmed) ELSE orderedText(trimmed), LAMBDA text :
        Bind(IF inList THEN <<processListItems(listItems, listType)>> ELSE <<>>, LAMBDA closed :
        IF type = ""
             THEN closed \o <<line>> \o listLines(lines, i + 1, FALSE, <<>>, "")
             ELSE IF ~inList \/ listType # type
             THEN closed \o listLines(lines, i + 1, TRUE, <<text>>, type)
             ELSE listLines(lines, i + 1, TRUE, Append(listItems, text), type))))))

formatLists(s) == Join(listLines(SplitOn(s, "\n"), 1, FALSE, <<>>, ""), "\n")

\* The match of /^>\s+(.+)$/gm that starts at p
BlockquoteMatch(s, p) ==
    Bind(TextStartAfterSpace(s, p + 1, SpaceRunEnd(s, p + 1)), LAMBDA t :
        IF AtLineStart(s, p) /\ At(s, p) = ">" /\ t # 0
        THEN [e |-> LineEnd(s, t) + 1, t |-> t]
        ELSE [e |-> 0, t |-> 0])

RECURSIVE formatBlockquotesFrom(_, _)
formatBlockquotesFrom(s, i) ==
    Bind(First(i, Len(s), LAMBDA q : BlockquoteMatch(s, q).e # 0), LAMBDA p :
        IF p > Len(s) THEN From(s, i)
        ELSE Bind(BlockquoteMatch(s, p), LAMBDA m :
        Sub(s, i, p - 1) \o "<blockquote>" \o Sub(s, m.t, m.e - 1) \o "</blockquote>"
                     \o formatBlockquotesFrom(s, m.e)))

\* content.replace(/^>\s+(.+)$/gm, '<blockquote>$1</blockquote>')
formatBlockquotes(s) == formatBlockquotesFrom(s, 1)

\* The match of /^[-*_]{3,}$/gm that starts at p: the index after it, 0 for none
RuleMatch(s, p) ==
    Bind(RunEndOf(s, p, {"-", "*", "_"}), LAMBDA r :
        IF AtLineStart(s, p) /\ r - p + 1 >= 3 /\ (r = Len(s) \/ At(s, r + 1) \in LineTerminators)
        THEN r + 1 ELSE 0)

RECURSIVE formatRulesFrom(_, _)
formatRulesFrom(s, i) ==
    Bind(First(i, Len(s), LAMBDA q : RuleMatch(s, q) # 0), LAMBDA p :
        IF p > Len(s) THEN From(s, i)
        ELSE Sub(s, i, p - 1) \o "<hr>" \o formatRulesFrom(s, RuleMatch(s, p)))

\* content.replace(/^[-*_]{3,}$/gm, '<hr>')
formatRules(s) == formatRulesFrom(s, 1)

---------------------------------------------------------------------------
(* Formatter passes: emphasis, strikethrough, links *)

\* (.+?) followed by the marker: from e on, the first index where the marker
\* starts with only `.` characters before it; 0 when a line terminator or the
\* end of the text comes first
LazyClose(s, marker, e) ==
    Bind(First(e, Len(s), LAMBDA q : StartsAt(s, q, marker) \/ ~IsDot(s, q)), LAMBDA c :
        IF StartsAt(s, c, marker) THEN c ELSE 0)

\* The match of /marker(.+?)marker/ that starts at p: the index where the
\* closing marker starts, 0 when there is no match
SpanMatch(s, marker, p) ==
    IF StartsAt(s, p, marker) /\ IsDot(s, p + Len(marker))
    THEN LazyClose(s, marker, p + Len(marker) + 1)
    ELSE 0

RECURSIVE wrapSpansFrom(_, _, _, _, _)
wrapSpansFrom(s, marker, open, close, i) ==
    Bind(First(i, Len(s), LAMBDA q : SpanMatch(s, marker, q) # 0), LAMBDA p :
        IF p > Len(s) THEN From(s, i)
        ELSE Bind(SpanMatch(s, marker, p), LAMBDA c :
        Sub(s, i, p - 1) \o open \o Sub(s, p + Len(marker), c - 1) \o close
                     \o wrapSpansFrom(s, marker, open, close, c + Len(marker))))

\* content.replace(/marker(.+?)marker/g, 'open$1close')
wrapSpans(s, marker, open, close) == wrapSpansFrom(s, marker, open, close, 1)

\* the three replaces of lines 1432-1434
formatEmphasis(s) ==
    wrapSpans(wrapSpans(wrapSpans(s,
        "***", "<strong><em>", "</em></strong>"),
        "**", "<strong>", "</strong>"),
        "*", "<em>", "</em>")

\* content.replace(/~~(.+?)~~/g, '<del>$1</del>')
formatStrikethrough(s) == wrapSpans(s, "~~", "<del>", "</del>")

NonSpaceRunEnd(s, i) == RunEnd(s, i, LAMBDA p : ~IsSpace(s, p))

\* The match of /(https?:\/\/[^\s]+)/ that starts at p: the index after it, 0 for none
UrlMatch(s, p) ==
    Bind(IF StartsAt(s, p, "https://") THEN p + 8 ELSE IF StartsAt(s, p, "http://") THEN p + 7 ELSE 0, LAMBDA a :
        Bind(NonSpaceRunEnd(s, a), LAMBDA r :
        IF a # 0 /\ r >= a THEN r + 1 ELSE 0))

RECURSIVE formatLinksFrom(_, _)
formatLinksFrom(s, i) ==
    Bind(First(i, Len(s), LAMBDA q : UrlMatch(s, q) # 0), LAMBDA p :
        IF p > Len(s) THEN From(s, i)
        ELSE Bind(UrlMatch(s, p), LAMBDA e :
        Bind(Sub(s, p, e - 1), LAMBDA u :
        Sub(s, i, p - 1)
                     \o "<a href=\"" \o u \o "\" target=\"_blank\" rel=\"noopener noreferrer\">"
                     \o u \o "</a>" \o formatLinksFrom(s, e))))

\* the replace of lines 1440-1443
formatLinks(s) == formatLinksFrom(s, 1)

---------------------------------------------------------------------------
(* The paragraph assembler *)

\* the index of the last "\n" among s[a..b], 0 for none
LastNewlineIn(s, a, b) ==
    Bind(Last(a, b, LAMBDA q : At(s, q) = "\n"), LAMBDA k :
        IF k < a THEN 0 ELSE k)

\* The match of /\n\s*\n/ that starts at p: \s* takes the whole blank run and
\* gives characters back up to its last newline.  The index after the match, 0 for none.
ParagraphBreak(s, p) ==
    Bind(LastNewlineIn(s, p + 1, SpaceRunEnd(s, p + 1)), LAMBDA q :
        IF At(s, p) = "\n" /\ q # 0 THEN q + 1 ELSE 0)

RECURSIVE splitParagraphs(_, _)
\* content.split(/\n\s*\n/) of the text from index a on
splitParagraphs(s, a) ==
    Bind(First(a, Len(s), LAMBDA q : ParagraphBreak(s, q) # 0), LAMBDA p :
        IF p > Len(s) THEN <<Sub(s, a, Len(s))>>
        ELSE <<Sub(s, a, p - 1)>> \o splitParagraphs(s, ParagraphBreak(s, p)))

blockElementNames ==
    <<"h1", "h2", "h3", "h4", "h5", "h6", "table", "ul", "ol", "blockquote", "pre", "hr", "div">>

RECURSIVE LowerCase(_)
LowerCase(s) ==
    IF s = "" THEN ""
    ELSE Bind(At(s, 1), LAMBDA c :
        Bind(IndexFrom("ABCDEFGHIJKLMNOPQRSTUVWXYZ", c, 1), LAMBDA k :
        (IF c \in UpperChars THEN At("abcdefghijklmnopqrstuvwxyz", k) ELSE c)
                 \o LowerCase(From(s, 2))))

\* /<(h[1-6]|table|ul|ol|blockquote|pre|hr|div)/i matches at index p
BlockElementAt(s, p) ==
    /\ At(s, p) = "<"
    /\ \E k \in 1..Len(blockElementNames) :
           LowerCase(Sub(s, p + 1, p + Len(blockElementNames[k]))) = blockElementNames[k]

\* match.index of trimmed.match(blockElementRegex), 0 when there is no match
FirstBlockElement(s, i) ==
    Bind(First(i, Len(s), LAMBDA q : BlockElementAt(s, q)), LAMBDA p :
        IF p > Len(s) THEN 0 ELSE p)

\* \n(?!\s*\n) at index p
SingleNewlineAt(s, p) ==
    At(s, p) = "\n" /\ LastNewlineIn(s, p + 1, SpaceRunEnd(s, p + 1)) = 0

RECURSIVE withBreaksFrom(_, _)
\* text.replace(/\n(?!\s*\n)/g, '<br>')
withBreaksFrom(s, i) ==
    Bind(First(i, Len(s), LAMBDA q : SingleNewlineAt(s, q)), LAMBDA p :
        IF p > Len(s) THEN From(s, i)
        ELSE Sub(s, i, p - 1) \o "<br>" \o withBreaksFrom(s, p + 1))

withBreaks(s) == withBreaksFrom(s, 1)

\* the callback of paragraphs.map without the <p> element around a paragraph
\* that holds no block element (lines 1722-1724 returning withBreaks)
formatParagraphUnwrapped(para) ==
    Bind(Trim(para), LAMBDA trimmed :
    Bind(FirstBlockElement(trimmed, 1), LAMBDA k :
        IF trimmed = "" THEN ""
        ELSE IF k = 0 THEN withBreaks(trimmed)
        ELSE Bind(Trim(Sub(trimmed, 1, k - 1)), LAMBDA textBefore :
             Bind(From(trimmed, k), LAMBDA restOfContent :
                 IF textBefore # ""
                 THEN "<p>" \o withBreaks(textBefore) \o "</p>\n\n" \o restOfContent
                 ELSE restOfContent))))

\* the callback of paragraphs.map
formatParagraph(para) ==
    Bind(Trim(para), LAMBDA trimmed :
    Bind(FirstBlockElement(trimmed, 1), LAMBDA k :
        IF trimmed = "" THEN ""
        ELSE IF k = 0 THEN "<p>" \o withBreaks(trimmed) \o "</p>"
        ELSE Bind(Trim(Sub(trimmed, 1, k - 1)), LAMBDA textBefore :
             Bind(From(trimmed, k), LAMBDA restOfContent :
                 IF textBefore # ""
                 THEN "<p>" \o withBreaks(textBefore) \o "</p>\n\n" \o restOfContent
                 ELSE restOfContent))))

RECURSIVE nonEmptyParagraphs(_)
\* .map(formatParagraph).filter(p => p)
nonEmptyParagraphs(paragraphs) ==
    IF Len(paragraphs) = 0 THEN <<>>
    ELSE Bind(formatParagraph(paragraphs[1]), LAMBDA f :
        (IF f = "" THEN <<>> ELSE <<f>>) \o nonEmptyParagraphs(Tail(paragraphs)))

formatParagraphs(s) == Join(nonEmptyParagraphs(splitParagraphs(s, 1)), "\n\n")

---------------------------------------------------------------------------
(* Restoration *)

RECURSIVE GetSubstitution(_, _, _, _)
\* The expansion of a replacement string for a string pattern (no captures):
\* $$ is a dollar sign, $& the matched text, $ with a backtick the text
\* before the match, $' the text after it; any other $ stays.
GetSubstitution(replacement, matched, before, after) ==
    Bind(IndexFrom(replacement, "$", 1), LAMBDA k :
        Bind(At(replacement, k + 1), LAMBDA c :
        IF k = 0 THEN replacement
        ELSE Sub(replacement, 1, k - 1)
                 \o (IF c = "$" THEN "$"
                     ELSE IF c = "&" THEN matched
                     ELSE IF c = Backtick THEN before
                     ELSE IF c = "'" THEN after
                     ELSE "$")
                 \o GetSubstitution(From(replacement, IF c \in {"$", "&", Backtick, "'"}
                                                      THEN k + 2 ELSE k + 1),
                                    matched, before, after)))

\* content.replace(pattern, replacement) for a string pattern: the first
\* occurrence only, the replacement expanded by GetSubstitution
replaceFirst(s, pattern, replacement) ==
    Bind(IndexFrom(s, pattern, 1), LAMBDA k :
        Bind(Sub(s, 1, k - 1), LAMBDA before :
        Bind(From(s, k + Len(pattern)), LAMBDA after :
        IF k = 0 THEN s
        ELSE before \o GetSubstitution(replacement, pattern, before, after) \o after)))

RECURSIVE restoreCodeBlocks(_, _, _)
\* codeBlocks.forEach((block, index) => ...) from index i (counted from 1) on
restoreCodeBlocks(s, blocks, i) ==
    IF i > Len(blocks) THEN s
    ELSE restoreCodeBlocks(replaceFirst(s, codeBlockPlaceholder(i - 1), blocks[i]), blocks, i + 1)

RECURSIVE restoreInlineCodes(_, _, _)
\* inlineCodes.forEach((code, index) => ...)
restoreInlineCodes(s, codes, i) ==
    IF i > Len(codes) THEN s
    ELSE restoreInlineCodes(replaceFirst(s, inlineCodePlaceholder(i - 1), codes[i]), codes, i + 1)

---------------------------------------------------------------------------
(* The final pass: handleUnformattedCode *)

\* keyword\s+\w+ at p: the index after the match, 0 for none
KeywordWordMatch(s, p, keyword) ==
    Bind(SpaceRunEnd(s, p + Len(keyword)), LAMBDA b :
        Bind(WordRunEnd(s, b + 1), LAMBDA w :
        IF StartsAt(s, p, keyword) /\ b >= p + Len(keyword) /\ w >= b + 1 THEN w + 1 ELSE 0))

\* #include\s*<[^>]+> at p
IncludeMatch(s, p) ==
    Bind(SpaceRunEnd(s, p + 8) + 1, LAMBDA a :
        Bind(IndexFrom(s, ">", a + 1), LAMBDA g :
        IF StartsAt(s, p, "#include") /\ At(s, a) = "<" /\ g >= a + 2 THEN g + 1 ELSE 0))

\* public:|private:|protected: at p
AccessMatch(s, p) ==
    IF StartsAt(s, p, "public:") THEN p + 7
    ELSE IF StartsAt(s, p, "private:") THEN p + 8
    ELSE IF StartsAt(s, p, "protected:") THEN p + 10
    ELSE 0

LiteralMatch(s, p, lit) == IF StartsAt(s, p, lit) THEN p + Len(lit) ELSE 0

\* \w+\(\s*\) at p
CallMatch(s, p) ==
    Bind(WordRunEnd(s, p), LAMBDA w :
        Bind(SpaceRunEnd(s, w + 2), LAMBDA b :
        IF w >= p /\ At(s, w + 1) = "(" /\ At(s, b + 1) = ")" THEN b + 2 ELSE 0))

\* class\s+\w+[^{]*{ at p
ClassOpenerMatch(s, p) ==
    Bind(SpaceRunEnd(s, p + 5) + 1, LAMBDA w :
        Bind(IndexFrom(s, "{", w + 1), LAMBDA z :
        IF StartsAt(s, p, "class") /\ w > p + 5 /\ IsWord(s, w) /\ z # 0 THEN z + 1 ELSE 0))

\* the first parenthesis from i on, "" when there is none
NextParen(s, i) == At(s, First(i, Len(s), LAMBDA q : At(s, q) \in {"(", ")"}))

\* ;\s*(?![^()]*\)) at p: not when the next parenthesis closes one
StatementEndMatch(s, p) ==
    Bind(SpaceRunEnd(s, p + 1), LAMBDA b :
        IF At(s, p) = ";" /\ NextParen(s, b + 1) # ")" THEN b + 1 ELSE 0)

\* ;\s* at p
SemicolonMatch(s, p) == IF At(s, p) = ";" THEN SpaceRunEnd(s, p + 1) + 1 ELSE 0

\* \s*{\s* and \s*}\s* at p
BraceRunMatch(s, p, brace) ==
    Bind(SpaceRunEnd(s, p), LAMBDA b :
        IF At(s, b + 1) = brace THEN SpaceRunEnd(s, b + 2) + 1 ELSE 0)

\* \s+(return\s+[^;]+;) at p
ReturnMatch(s, p) ==
    Bind(SpaceRunEnd(s, p), LAMBDA b :
        Bind(IndexFrom(s, ";", b + 7), LAMBDA z :
        IF b >= p /\ StartsAt(s, b + 1, "return") /\ IsSpace(s, b + 7) /\ z >= b + 9
        THEN z + 1 ELSE 0))

\* \n\s*\n\s*\n at p: three newlines in one blank run, up to the last of them
BlankLinesMatch(s, p) ==
    Bind(SpaceRunEnd(s, p + 1), LAMBDA b :
        Bind(LastNewlineIn(s, p + 1, b), LAMBDA q :
        IF At(s, p) = "\n" /\ q # 0 /\ LastNewlineIn(s, p + 1, q - 1) # 0 THEN q + 1 ELSE 0))

\* The regular expressions of handleUnformattedCode by name: the index after
\* the match that starts at p, 0 when there is none.
MatchEnd(re, s, p) ==
    CASE re = "include"      -> IncludeMatch(s, p)
      [] re = "class"        -> KeywordWordMatch(s, p, "class")
      [] re = "access"       -> AccessMatch(s, p)
      [] re = "std"          -> LiteralMatch(s, p, "std::")
      [] re = "return"       -> KeywordWordMatch(s, p, "return")
      [] re = "call"         -> CallMatch(s, p)
      [] re = "brace"        -> IF At(s, p) \in {"{", "}"} THEN p + 1 ELSE 0
      [] re = "function"     -> KeywordWordMatch(s, p, "function")
      [] re = "def"          -> KeywordWordMatch(s, p, "def")
      [] re = "import"       -> KeywordWordMatch(s, p, "import")
      [] re = "consoleLog"   -> LiteralMatch(s, p, "console.log")
      [] re = "document"     -> LiteralMatch(s, p, "document.")
      [] re = "classOpener"  -> ClassOpenerMatch(s, p)
      [] re = "statementEnd" -> StatementEndMatch(s, p)
      [] re = "semicolon"    -> SemicolonMatch(s, p)
      [] re = "openBrace"    -> BraceRunMatch(s, p, "{")
      [] re = "closeBrace"   -> BraceRunMatch(s, p, "}")
      [] re = "returnLine"   -> ReturnMatch(s, p)
      [] re = "blankLines"   -> BlankLinesMatch(s, p)

\* what the replace call of handleUnformattedCode puts for the match s[p..e-1]
Replacement(re, s, p, e) ==
    CASE re = "include"      -> Sub(s, p, e - 1) \o "\n"
      [] re = "classOpener"  -> "\n" \o Sub(s, p, e - 1) \o "\n"
      [] re = "access"       -> "\n    " \o Sub(s, p, e - 1) \o "\n"
      [] re = "statementEnd" -> ";\n"
      [] re = "semicolon"    -> ";\n"
      [] re = "openBrace"    -> " {\n    "
      [] re = "closeBrace"   -> "\n}\n"
      [] re = "returnLine"   -> "\n    " \o Sub(s, SpaceRunEnd(s, p) + 1, e - 1)
      [] re = "blankLines"   -> "\n\n"

RECURSIVE CountMatchesFrom(_, _, _)
\* content.match(pattern).length for a g pattern: the matches, left to right
CountMatchesFrom(re, s, i) ==
    Bind(First(i, Len(s), LAMBDA q : MatchEnd(re, s, q) # 0), LAMBDA p :
        IF p > Len(s) THEN 0 ELSE 1 + CountMatchesFrom(re, s, MatchEnd(re, s, p)))

CountMatches(re, s) == CountMatchesFrom(re, s, 1)

RECURSIVE ReplaceMatchesFrom(_, _, _)
ReplaceMatchesFrom(re, s, i) ==
    Bind(First(i, Len(s), LAMBDA q : MatchEnd(re, s, q) # 0), LAMBDA p :
        IF p > Len(s) THEN From(s, i)
        ELSE Bind(MatchEnd(re, s, p), LAMBDA e :
        Sub(s, i, p - 1) \o Replacement(re, s, p, e) \o ReplaceMatchesFrom(re, s, e)))

\* formattedContent.replace(pattern, replacement) for a g pattern
ReplaceMatches(re, s) == ReplaceMatchesFrom(re, s, 1)

codeIndicators == <<"include", "class", "access", "std", "return", "call", "brace">>

otherCodePatterns == <<"function", "def", "import", "consoleLog", "document">>

RECURSIVE indicatorCount(_, _)
\* the forEach that adds up matches.length over the patterns
indicatorCount(patterns, s) ==
    IF Len(patterns) = 0 THEN 0
    ELSE CountMatches(patterns[1], s) + indicatorCount(Tail(patterns), s)

codeIndicatorCount(s) == indicatorCount(codeIndicators, s)

otherCodeCount(s) == indicatorCount(otherCodePatterns, s)

\* the threshold of the C profile
CodeIndicatorThreshold == 3

\* the threshold of the script profile
OtherCodeThreshold == 2

RECURSIVE ReplaceInOrder(_, _)
\* the replace calls of one branch, applied in the source's order
ReplaceInOrder(res, s) ==
    IF Len(res) = 0 THEN s ELSE ReplaceInOrder(Tail(res), ReplaceMatches(res[1], s))

handleUnformattedCode(s) ==
    IF codeIndicatorCount(s) >= CodeIndicatorThreshold
    THEN "<pre><code class=\"language-cpp\">"
             \o escapeHtml(Trim(ReplaceInOrder(
                    <<"include", "classOpener", "access", "statementEnd",
                      "openBrace", "closeBrace", "returnLine", "blankLines">>, s)))
             \o "</code></pre>"
    ELSE IF otherCodeCount(s) >= OtherCodeThreshold
    THEN "<pre><code class=\"language-javascript\">"
             \o escapeHtml(Trim(ReplaceInOrder(<<"semicolon", "openBrace", "closeBrace">>, s)))
             \o "</code></pre>"
    ELSE s

---------------------------------------------------------------------------
(* formatContent as a state machine: one step per statement group *)

\* how many tokens a fenced code body of the model has at most
MaxBodyTokens == 2

\* how many tokens an unfenced message of the model has at most
MaxProseTokens == 3

\* how many data rows a table of the model has at most
MaxRows == 2

RECURSIVE TokenTexts(_, _)
\* the texts made of at most n tokens of the set
TokenTexts(tokens, n) ==
    IF n = 0 THEN {""}
    ELSE LET shorter == TokenTexts(tokens, n - 1)
         IN  shorter \cup {t \o u : t \in shorter, u \in tokens}

\* a message that holds one fenced code block
FencedMessage(before, language, body, after) ==
    before \o Fence \o language \o "\n" \o body \o "\n" \o Fence \o after

BodyTokens == {"x", "\n", "  ", "<b>", "*", "|", "{}", "f()", "$&"}

Bodies == TokenTexts(BodyTokens, MaxBodyTokens)

Languages == {"", "js"}

\* what stands before and after the fenced block: a text of the placeholder
\* form, a line of prose
Surroundings == {<<"__CODE_BLOCK_0__ ", "">>, <<"see\n", "\nbye">>}

FencedMessages ==
    {FencedMessage("", l, b, "") : l \in Languages, b \in Bodies}
        \cup {FencedMessage(w[1], "", b, w[2]) : w \in Surroundings, b \in BodyTokens}

ProseTokens == {"hello", " ", "\n", "a & b", "class A ", "if x ", "{}"}

ProseMessages == TokenTexts(ProseTokens, MaxProseTokens)

TableRows == {"|1|2|\n", "|" \o Backtick \o "c" \o Backtick \o "|\n", "|1|2|3|\n"}

TableMessages == {"|a|b|\n|-|-|\n" \o r : r \in TokenTexts(TableRows, MaxRows)}

\* messages with markup-like text, a URL, carriage returns, and the examples
\* of the specification's testable properties
ExampleMessages ==
    {"<script>alert(1)</script>",
     "<img src=x onerror=alert(1)>",
     "1 &lt; 2 and <b>bold</b>",
     "a < b",
     "a\r\nb\rc",
     "see http://u/" \o Backtick \o "c" \o Backtick,
     "see http://u/ " \o Backtick \o "c" \o Backtick,
     Backtick \o "a " \o Fence \o "js x" \o Fence \o " b" \o Backtick,
     "#include <x>\nclass A { public: int f(){return 1;} };",
     "The class was fun.",
     "class is what you need if you care for it",
     "a|b\n--|--\n1|2",
     "a|b\n--|--\n1|2\n3|4|5",
     "<b>&amp;quot; &amp;lt;</b>",
     Fence \o "js\nx",
     "see " \o Fence \o "js\nx",
     "- a\n1. b"}

Messages == FencedMessages \cup ProseMessages \cup TableMessages \cup ExampleMessages

\* no message is being rendered: the state of a message element that
\* renderMessage has just appended to chatContainer (line 1238)
RendererIdle ==
    /\ rs = "idle"
    /\ usage = FALSE
    /\ contentDiv = ""
    /\ pending = <<>>
    /\ attached = TRUE
    /\ contentWrites = 0
    /\ elementWrites = 0

\* this.maxRetries = 3 and this.retryDelay = 1000 (ms), lines 456-457
maxRetries == 3

retryDelay == 1000

\* this.contextWindowSize = 10, line 208
contextWindowSize == 10

\* the age in ms from which getOptimizedMessagesForRequest reads the history
\* again, line 1108
CacheLifetime == 30000

\* no message was sent: the fields the constructors set (lines 452-469);
\* contextCacheTime is 0, so the age of the cache is beyond its lifetime
ChatIdle ==
    /\ messages = <<>>
    /\ history = <<>>
    /\ request = <<>>
    /\ contextCache = <<>>
    /\ cacheAge = CacheLifetime
    /\ retryCount = 0
    /\ waits = <<>>
    /\ chatPc = "ready"
    /\ isLoading = FALSE
    /\ activeRequest = <<>>
    /\ running = 0
    /\ calls = [parity |-> 0, refused |-> FALSE]

\* the backend was not started and handled no request
ServerIdle ==
    /\ occupied = {}
    /\ servers = <<>>
    /\ processServer = 0
    /\ exited = FALSE
    /\ reply = [route |-> "none", status |-> 0]
    /\ forwarded = FALSE

\* the database is empty and initializeApp has not run: the fields the
\* constructor of ChatHistory sets (lines 203-210)
SessionIdle ==
    /\ dbSessions = <<>>
    /\ dbMessages = <<>>
    /\ sessions = <<>>
    /\ currentSessionId = 0
    /\ view = <<>>
    /\ lastOp = [name |-> "start", arg |-> 0]
    /\ nextId = 1
    /\ sendOp = [pc |-> "idle"]
    /\ renameOp = [pc |-> "idle"]
    /\ activityOp = [pc |-> "idle"]

Init ==
    /\ input \in Messages
    /\ content = input
    /\ codeBlocks = <<>>
    /\ inlineCodes = <<>>
    /\ fenced = 0
    /\ pc = "start"
    /\ RendererIdle
    /\ ChatIdle
    /\ ServerIdle
    /\ SessionIdle

\* lines 1353-1365: the message holds a tag, it is returned with its entities decoded
Bypass ==
    /\ pc = "start"
    /\ hasHTMLTags(content)
    /\ content' = cleanedContent(content)
    /\ pc' = "done"
    /\ UNCHANGED <<input, codeBlocks, inlineCodes, fenced>>
    /\ UNCHANGED <<rendererVars, chatVars, serverVars, sessionVars>>

\* line 1371
NormalizeLineBreaks ==
    /\ pc = "start"
    /\ ~hasHTMLTags(content)
    /\ content' = normalizeLineBreaks(content)
    /\ pc' = "fences"
    /\ UNCHANGED <<input, codeBlocks, inlineCodes, fenced>>
    /\ UNCHANGED <<rendererVars, chatVars, serverVars, sessionVars>>

\* lines 1373-1384
ProtectFences ==
    /\ pc = "fences"
    /\ LET r == protectFences(content, 1, codeBlocks)
       IN  /\ content' = r.text
           /\ codeBlocks' = r.blocks
           /\ fenced' = Len(r.blocks)
    /\ pc' = "unfenced"
    /\ UNCHANGED <<input, inlineCodes>>
    /\ UNCHANGED <<rendererVars, chatVars, serverVars, sessionVars>>

\* lines 1386-1397
ProtectUnfenced ==
    /\ pc = "unfenced"
    /\ LET r == protectUnfenced(content, 1, codeBlocks)
       IN  /\ content' = r.text
           /\ codeBlocks' = r.blocks
    /\ pc' = "inline"
    /\ UNCHANGED <<input, inlineCodes, fenced>>
    /\ UNCHANGED <<rendererVars, chatVars, serverVars, sessionVars>>

\* lines 1399-1405
ProtectInline ==
    /\ pc = "inline"
    /\ LET r == protectInline(content, 1, inlineCodes)
       IN  /\ content' = r.text
           /\ inlineCodes' = r.codes
    /\ pc' = "tables"
    /\ UNCHANGED <<input, codeBlocks, fenced>>
    /\ UNCHANGED <<rendererVars, chatVars, serverVars, sessionVars>>

\* the formatter passes of lines 1407-1446, in the source's order: the
\* statement at pc, the text it makes of the content, the statement after it
FormatterPasses ==
    <<"tables", "headers", "lists", "blockquotes", "rules", "emphasis",
      "strikethrough", "links", "paragraphs">>

formatterPass(stage, s) ==
    CASE stage = "tables"        -> formatTables(s)
      [] stage = "headers"       -> formatHeaders(s)
      [] stage = "lists"         -> formatLists(s)
      [] stage = "blockquotes"   -> formatBlockquotes(s)
      [] stage = "rules"         -> formatRules(s)
      [] stage = "emphasis"      -> formatEmphasis(s)
      [] stage = "strikethrough" -> formatStrikethrough(s)
      [] stage = "links"         -> formatLinks(s)
      [] stage = "paragraphs"    -> formatParagraphs(s)

Format(k) ==
    /\ pc = FormatterPasses[k]
    /\ content' = formatterPass(pc, content)
    /\ pc' = IF k < Len(FormatterPasses) THEN FormatterPasses[k + 1] ELSE "restoreBlocks"
    /\ UNCHANGED <<input, codeBlocks, inlineCodes, fenced>>
    /\ UNCHANGED <<rendererVars, chatVars, serverVars, sessionVars>>

\* lines 1448-1451
RestoreCodeBlocks ==
    /\ pc = "restoreBlocks"
    /\ content' = restoreCodeBlocks(content, codeBlocks, 1)
    /\ pc' = "restoreInline"
    /\ UNCHANGED <<input, codeBlocks, inlineCodes, fenced>>
    /\ UNCHANGED <<rendererVars, chatVars, serverVars, sessionVars>>

\* lines 1453-1456
RestoreInlineCodes ==
    /\ pc = "restoreInline"
    /\ content' = restoreInlineCodes(content, inlineCodes, 1)
    /\ pc' = "final"
    /\ UNCHANGED <<input, codeBlocks, inlineCodes, fenced>>
    /\ UNCHANGED <<rendererVars, chatVars, serverVars, sessionVars>>

\* lines 1458-1461: the final pass, then formatContent returns content
FinalPass ==
    /\ pc = "final"
    /\ content' = handleUnformattedCode(content)
    /\ pc' = "done"
    /\ UNCHANGED <<input, codeBlocks, inlineCodes, fenced>>
    /\ UNCHANGED <<rendererVars, chatVars, serverVars, sessionVars>>

Next ==
    \/ Bypass
    \/ NormalizeLineBreaks
    \/ ProtectFences
    \/ ProtectUnfenced
    \/ ProtectInline
    \/ \E k \in 1..Len(FormatterPasses) : Format(k)
    \/ RestoreCodeBlocks
    \/ RestoreInlineCodes
    \/ FinalPass

Spec == Init /\ [][Next]_vars

-----------------------------------------------------------------------------
\* formatLists on its own: the argument is any short sequence of lines

MaxListLines == 4

ListLineKinds == {"- a", "  * b", "1. c", "text", ""}

ListLineSeqs == UNION {[1..n -> ListLineKinds] : n \in 1..MaxListLines}

ListInit ==
    /\ input \in {Join(ls, "\n") : ls \in ListLineSeqs}
    /\ content = input
    /\ codeBlocks = <<>>
    /\ inlineCodes = <<>>
    /\ fenced = 0
    /\ pc = "listsCall"
    /\ RendererIdle
    /\ ChatIdle
    /\ ServerIdle
    /\ SessionIdle

\* content = this.formatLists(content)
FormatLists ==
    /\ pc = "listsCall"
    /\ content' = formatLists(content)
    /\ pc' = "listsReturned"
    /\ UNCHANGED <<input, codeBlocks, inlineCodes, fenced>>
    /\ UNCHANGED <<rendererVars, chatVars, serverVars, sessionVars>>

ListNext == FormatLists

ListSpec == ListInit /\ [][ListNext]_vars

-----------------------------------------------------------------------------
(* ChatApp.streamMessageContent (lines 1274-1341).  JavaScript runs a       *)
(* handler until it awaits: the statements between two awaits are steps of  *)
(* one task, and another handler (clearChat) runs only while the loop       *)
(* awaits its delay or after the function has returned.  The content area   *)
(* is modelled by the text assigned to contentDiv.innerHTML.  The length of *)
(* each delay (lines 1316-1318) changes no field and is left out, and so is *)
(* Prism.highlightAllUnder (lines 1338-1340), a library outside src/ that   *)
(* is called only when it is loaded.                                        *)

\* an entity reference &[a-z]+; at p: the index of its semicolon, 0 for none
EntityEnd(s, p) ==
    Bind(RunEndOf(s, p + 1, LowerChars), LAMBDA e :
        IF At(s, p) = "&" /\ e >= p + 1 /\ At(s, e + 1) = ";" THEN e + 1 ELSE 0)

\* a tag <[^>]+> at p: the index of its closing bracket, 0 for none
TagEnd(s, p) ==
    Bind(IndexFrom(s, ">", p + 1), LAMBDA q :
        IF At(s, p) = "<" /\ q >= p + 2 THEN q ELSE 0)

\* the match of (\s+|&[a-z]+;|<[^>]+>) at p: the index of its last character, 0 for none
SeparatorEnd(s, p) ==
    IF IsSpace(s, p) THEN SpaceRunEnd(s, p)
    ELSE IF EntityEnd(s, p) # 0 THEN EntityEnd(s, p)
    ELSE TagEnd(s, p)

RECURSIVE splitTokensFrom(_, _)
\* formattedContent.split(/(\s+|&[a-z]+;|<[^>]+>)/g) from position i: the
\* text before each separator, the separator, and the text after the last one
splitTokensFrom(s, i) ==
    Bind(First(i, Len(s), LAMBDA q : SeparatorEnd(s, q) # 0), LAMBDA p :
        IF p > Len(s) THEN <<From(s, i)>>
        ELSE <<Sub(s, i, p - 1), Sub(s, p, SeparatorEnd(s, p))>>
                 \o splitTokensFrom(s, SeparatorEnd(s, p) + 1))

splitTokens(s) == splitTokensFrom(s, 1)

\* the test of lines 1293-1294 with the pattern anchored at the start of
\* the text, /^<\/?[a-z][\s\S]*>/i
htmlTagAtStart(s) == At(s, 1) = "<" /\ htmlTagPattern(s)

\* htmlTagPattern.test(formattedContent), lines 1293-1294
isHTMLFormatted(s) == htmlTagPattern(s)

\* the assistant messages that are rendered
StreamMessages ==
    {"hello",
     "a < b",
     "<b>x</b>",
     "1 &lt; 2 and <b>bold</b>",
     "|a|b|\n|-|-|\n|1|2|\n",
     Fence \o "js\nx\n" \o Fence,
     " ",
     "<hr",
     "<div a b",
     "<div a, b. c",
     "<div x &amp; y"}

StreamInit ==
    /\ input \in StreamMessages \cup ExampleMessages
    /\ content = input
    /\ codeBlocks = <<>>
    /\ inlineCodes = <<>>
    /\ fenced = 0
    /\ pc = "idle"
    /\ rs = "idle"
    /\ usage \in BOOLEAN
    /\ contentDiv = ""
    /\ pending = <<>>
    /\ attached = TRUE
    /\ contentWrites = 0
    /\ elementWrites = 0
    /\ ChatIdle
    /\ ServerIdle
    /\ SessionIdle

\* lines 1275-1290: the header and the empty content area are written and
\* formatContent is called
BeginStream ==
    /\ rs = "idle"
    /\ elementWrites' = elementWrites + 1
    /\ contentDiv' = ""
    /\ rs' = "formatting"
    /\ pc' = "start"
    /\ UNCHANGED <<input, content, codeBlocks, inlineCodes, fenced>>
    /\ UNCHANGED <<usage, pending, attached, contentWrites>>
    /\ UNCHANGED <<chatVars, serverVars, sessionVars>>

\* lines 1293-1298: formatContent has returned text with a tag
CommitHTML ==
    /\ rs = "formatting"
    /\ pc = "done"
    /\ isHTMLFormatted(content)
    /\ contentDiv' = content
    /\ contentWrites' = contentWrites + 1
    /\ rs' = "usage"
    /\ UNCHANGED <<usage, pending, attached, elementWrites>>
    /\ UNCHANGED <<pipelineVars, chatVars, serverVars, sessionVars>>

\* lines 1293-1301: formatContent has returned text without a tag
SplitTokens ==
    /\ rs = "formatting"
    /\ pc = "done"
    /\ ~isHTMLFormatted(content)
    /\ pending' = splitTokens(content)
    /\ rs' = "loop"
    /\ UNCHANGED <<usage, contentDiv, attached, contentWrites, elementWrites>>
    /\ UNCHANGED <<pipelineVars, chatVars, serverVars, sessionVars>>

\* lines 1303-1319: one token is appended and the loop awaits its delay
AppendToken ==
    /\ rs = "loop"
    /\ pending # <<>>
    /\ contentDiv' = contentDiv \o Head(pending)
    /\ contentWrites' = contentWrites + 1
    /\ pending' = Tail(pending)
    /\ rs' = "delay"
    /\ UNCHANGED <<usage, attached, elementWrites>>
    /\ UNCHANGED <<pipelineVars, chatVars, serverVars, sessionVars>>

\* the timer fires and the loop ends whatever is left to append, as with a
\* break after the delay
DelayElapsedEndsLoop ==
    /\ rs = "delay"
    /\ rs' = "usage"
    /\ UNCHANGED <<usage, contentDiv, pending, attached, contentWrites, elementWrites>>
    /\ UNCHANGED <<pipelineVars, chatVars, serverVars, sessionVars>>

\* the timer of line 1319 fires: the loop goes on or ends (line 1303)
DelayElapsed ==
    /\ rs = "delay"
    /\ rs' = IF pending # <<>> THEN "loop" ELSE "usage"
    /\ UNCHANGED <<usage, contentDiv, pending, attached, contentWrites, elementWrites>>
    /\ UNCHANGED <<pipelineVars, chatVars, serverVars, sessionVars>>

\* lines 1323-1341: the usage footer is added to the message element and
\* the function returns
AppendUsage ==
    /\ rs = "usage"
    /\ elementWrites' = IF usage THEN elementWrites + 1 ELSE elementWrites
    /\ rs' = "done"
    /\ UNCHANGED <<usage, contentDiv, pending, attached, contentWrites>>
    /\ UNCHANGED <<pipelineVars, chatVars, serverVars, sessionVars>>

\* clearChat, lines 1769-1776, also called by createNewSession (line 751)
\* and loadSession (line 768): chatContainer loses its children
ClearChat ==
    /\ rs \in {"delay", "done"}
    /\ attached
    /\ attached' = FALSE
    /\ UNCHANGED <<rs, usage, contentDiv, pending, contentWrites, elementWrites>>
    /\ UNCHANGED <<pipelineVars, chatVars, serverVars, sessionVars>>

StreamNext ==
    \/ BeginStream
    \/ Bypass
    \/ NormalizeLineBreaks
    \/ ProtectFences
    \/ ProtectUnfenced
    \/ ProtectInline
    \/ \E k \in 1..Len(FormatterPasses) : Format(k)
    \/ RestoreCodeBlocks
    \/ RestoreInlineCodes
    \/ FinalPass
    \/ CommitHTML
    \/ SplitTokens
    \/ AppendToken
    \/ DelayElapsed
    \/ AppendUsage
    \/ ClearChat

StreamSpec == StreamInit /\ [][StreamNext]_vars

-----------------------------------------------------------------------------
(* ChatApp.sendMessage (lines 983-1037) with addMessage's bookkeeping       *)
(* (lines 1165-1207), getOptimizedMessagesForRequest (1104-1120),           *)
(* ChatHistory.getMessagesForRequest (317-340), ChatDatabase                *)
(* .getRecentMessages (175-181) and callChatAPI (1045-1099).  A message is  *)
(* its role and its number in the conversation; the number stands for the   *)
(* content.  Rendering is the subject of StreamSpec and changes none of     *)
(* these fields.                                                            *)

MaxMessages == 22

MaxSaveFailures == 1

MaxFailedRequests == 1

\* the time that passes in one step of the clock, in ms
TickMs == 10000

systemMessage == [role |-> "system", id |-> 0]

\* messages.slice(-count * 2), lines 179-180
getRecentMessages(stored, count) ==
    IF Len(stored) <= count * 2 THEN stored
    ELSE SubSeq(stored, Len(stored) - count * 2 + 1, Len(stored))

\* lines 323-335: the system prompt, then the recent messages
getMessagesForRequest(stored) ==
    <<systemMessage>> \o getRecentMessages(stored, contextWindowSize)

\* the errors fetch and the response handling of lines 1054-1072 throw
FetchErrors ==
    {[name |-> "AbortError", message |-> "The operation was aborted."],
     [name |-> "TypeError", message |-> "Failed to fetch"],
     [name |-> "TypeError", message |-> "A network error occurred."],
     [name |-> "Error", message |-> "HTTP 500: Internal Server Error"]}

\* the test of lines 1088-1092 with one more retry
shouldRetryOnceMore(error, count) ==
    /\ count <= maxRetries
    /\ \/ error.name = "AbortError"
       \/ Includes(error.message, "fetch")
       \/ Includes(error.message, "network")

\* the test of lines 1088-1092
shouldRetry(error, count) ==
    /\ count < maxRetries
    /\ \/ error.name = "AbortError"
       \/ Includes(error.message, "fetch")
       \/ Includes(error.message, "network")

\* the delay of line 1094
retryWait(count) == retryDelay * (count + 1)

\* the user messages that have no reply: the request that is running and
\* the requests that ended with an error
Unanswered(msgs) ==
    Cardinality({k \in 1..Len(msgs) : msgs[k].role = "user"})
        - Cardinality({k \in 1..Len(msgs) : msgs[k].role = "assistant"})

\* the running request may still end with an error
MayFail == Unanswered(messages) <= MaxFailedRequests

ChatInit ==
    /\ input = ""
    /\ content = ""
    /\ codeBlocks = <<>>
    /\ inlineCodes = <<>>
    /\ fenced = 0
    /\ pc = "idle"
    /\ RendererIdle
    /\ ChatIdle
    /\ ServerIdle
    /\ SessionIdle

\* the texts the input field holds when sendMessage is called, trimmed
MessageTexts == {"", "hello"}

\* the tests of lines 985 and 988 without the tests of the request that
\* is running
maySendWhileLoading(text, loading, active) == text # ""

\* the tests of lines 985 and 988 under which sendMessage goes on
maySend(text, loading, active) == text # "" /\ ~loading /\ active = <<>>

\* lines 983-1005, up to the first await: a call that does not pass the
\* tests returns, a call that passes them shows the loading state
SendMessage(text) ==
    /\ Len(messages) < MaxMessages
    /\ calls' = [parity |-> 1 - calls.parity,
                 refused |-> IF maySend(text, isLoading, activeRequest) THEN FALSE
                             ELSE calls.refused \/ isLoading \/ activeRequest # <<>>]
    /\ IF maySend(text, isLoading, activeRequest)
       THEN /\ isLoading' = TRUE
            /\ running' = running + 1
            /\ chatPc' = "addUser"
       ELSE UNCHANGED <<isLoading, running, chatPc>>
    /\ UNCHANGED <<messages, history, request, contextCache, cacheAge, retryCount,
                   waits, activeRequest>>
    /\ UNCHANGED <<pipelineVars, rendererVars, serverVars, sessionVars>>

\* line 1009 and addMessage('user', ...): the message is pushed and
\* saved; when the save succeeds the context cache is dropped (line 1200),
\* when it throws the error is logged (line 1202)
AddUserMessage(saved) ==
    /\ chatPc = "addUser"
    /\ saved \/ Len(messages) - Len(history) < MaxSaveFailures
    /\ messages' = Append(messages, [role |-> "user", id |-> Len(messages) + 1])
    /\ history' = IF saved THEN Append(history, [role |-> "user", id |-> Len(messages) + 1])
                  ELSE history
    /\ contextCache' = IF saved THEN <<>> ELSE contextCache
    /\ chatPc' = "context"
    /\ UNCHANGED <<request, cacheAge, retryCount, waits>>
    /\ UNCHANGED <<isLoading, activeRequest, running, calls>>
    /\ UNCHANGED <<pipelineVars, rendererVars, serverVars, sessionVars>>

\* lines 1012-1020 and 1104-1120: the cached context when it is fresh, else
\* the context read from the history, which is cached; the request becomes
\* the active request (its signature is never empty) and callChatAPI starts
GetContext ==
    /\ chatPc = "context"
    /\ IF contextCache # <<>> /\ cacheAge < CacheLifetime
       THEN /\ request' = contextCache
            /\ UNCHANGED <<contextCache, cacheAge>>
       ELSE /\ request' = getMessagesForRequest(history)
            /\ contextCache' = getMessagesForRequest(history)
            /\ cacheAge' = 0
    /\ retryCount' = 0
    /\ waits' = <<>>
    /\ chatPc' = "fetch"
    /\ activeRequest' = request'
    /\ UNCHANGED <<messages, history, isLoading, running, calls>>
    /\ UNCHANGED <<pipelineVars, rendererVars, serverVars, sessionVars>>

\* lines 1034-1035, the finally block of sendMessage
Finally ==
    /\ isLoading' = FALSE
    /\ activeRequest' = <<>>
    /\ running' = running - 1
    /\ chatPc' = "ready"

\* lines 1054-1076 and 1022-1027: the request is answered; an empty reply
\* is thrown as an error and shown (lines 1029-1036)
FetchReplies(empty) ==
    /\ chatPc = "fetch"
    /\ empty => MayFail
    /\ IF empty THEN Finally
       ELSE /\ chatPc' = "reply"
            /\ UNCHANGED <<isLoading, activeRequest, running>>
    /\ UNCHANGED <<messages, history, request, contextCache, cacheAge, retryCount, waits>>
    /\ UNCHANGED calls
    /\ UNCHANGED <<pipelineVars, rendererVars, serverVars, sessionVars>>

\* lines 1078-1098: the request fails; it is retried after a delay or the
\* error is thrown to sendMessage, which shows it (lines 1029-1036)
FetchFails(error) ==
    /\ chatPc = "fetch"
    /\ IF shouldRetry(error, retryCount)
       THEN /\ waits' = Append(waits, retryWait(retryCount))
            /\ chatPc' = "retryDelay"
            /\ UNCHANGED <<isLoading, activeRequest, running>>
       ELSE /\ MayFail
            /\ Finally
            /\ UNCHANGED waits
    /\ UNCHANGED <<messages, history, request, contextCache, cacheAge, retryCount>>
    /\ UNCHANGED calls
    /\ UNCHANGED <<pipelineVars, rendererVars, serverVars, sessionVars>>

\* line 1095: the delay is over, callChatAPI(messages, retryCount + 1)
Retry ==
    /\ chatPc = "retryDelay"
    /\ retryCount' = retryCount + 1
    /\ chatPc' = "fetch"
    /\ UNCHANGED <<messages, history, request, contextCache, cacheAge, waits>>
    /\ UNCHANGED <<isLoading, activeRequest, running, calls>>
    /\ UNCHANGED <<pipelineVars, rendererVars, serverVars, sessionVars>>

\* line 1024 and addMessage('assistant', ...): the reply is pushed,
\* rendered and saved, and the finally block runs
AddAssistantMessage(saved) ==
    /\ chatPc = "reply"
    /\ saved \/ Len(messages) - Len(history) < MaxSaveFailures
    /\ messages' = Append(messages, [role |-> "assistant", id |-> Len(messages) + 1])
    /\ history' = IF saved
                  THEN Append(history, [role |-> "assistant", id |-> Len(messages) + 1])
                  ELSE history
    /\ contextCache' = IF saved THEN <<>> ELSE contextCache
    /\ Finally
    /\ UNCHANGED <<request, cacheAge, retryCount, waits, calls>>
    /\ UNCHANGED <<pipelineVars, rendererVars, serverVars, sessionVars>>

\* time passes: Date.now() grows
Tick ==
    /\ cacheAge < CacheLifetime
    /\ cacheAge' = IF cacheAge + TickMs < CacheLifetime THEN cacheAge + TickMs
                   ELSE CacheLifetime
    /\ UNCHANGED <<messages, history, request, contextCache, retryCount, waits, chatPc>>
    /\ UNCHANGED <<isLoading, activeRequest, running, calls>>
    /\ UNCHANGED <<pipelineVars, rendererVars, serverVars, sessionVars>>

ChatNext ==
    \/ \E text \in MessageTexts : SendMessage(text)
    \/ \E saved \in BOOLEAN : AddUserMessage(saved)
    \/ GetContext
    \/ \E empty \in BOOLEAN : FetchReplies(empty)
    \/ \E error \in FetchErrors : FetchFails(error)
    \/ Retry
    \/ \E saved \in BOOLEAN : AddAssistantMessage(saved)
    \/ Tick

ChatSpec == ChatInit /\ [][ChatNext]_vars

\* the steps sendMessage takes after its first await: each is the
\* continuation of a promise that settles (the save of a message resolves
\* or rejects, fetch resolves or rejects and is aborted after 60 s by the
\* timer of line 1049, the timer of delay fires)
ChatStep ==
    \/ \E saved \in BOOLEAN : AddUserMessage(saved)
    \/ GetContext
    \/ \E empty \in BOOLEAN : FetchReplies(empty)
    \/ \E error \in FetchErrors : FetchFails(error)
    \/ Retry
    \/ \E saved \in BOOLEAN : AddAssistantMessage(saved)

MaxSendMessages == 4

\* the calls of sendMessage of a short conversation
SendNext ==
    \/ \E text \in MessageTexts : SendMessage(text) /\ Len(messages) < MaxSendMessages
    \/ ChatStep
    \/ Tick

\* the event loop runs the continuation of every promise that settled
SendSpec == ChatInit /\ [][SendNext]_vars /\ WF_vars(ChatStep)

---------------------------------------------------------------------------
(* The backend: src/unnamed/part_001, the handlers of POST /api/chat        *)
(* (lines 480-588) and GET /config (lines 597-606), startServer (lines      *)
(* 832-891) and the start of the server (lines 896-902).  A request body is *)
(* what express.json parsed: its field messages is absent, a string, or an  *)
(* array; an element of the array is an object with the strings role and    *)
(* content ("" when the field is absent or empty), or null.                 *)

\* line 382 with the variable PORT of the environment unset
PORT == 3000

\* the ports startServer tries are PORT .. PORT + MaxOccupied
MaxOccupied == 2

MaxChatMessages == 2

Roles == {"", "user", "assistant", "system", "tool"}

Contents == {"", "hi"}

ChatMessages ==
    [kind : {"object"}, role : Roles, content : Contents]
        \cup {[kind |-> "null", role |-> "", content |-> ""]}

ChatMessageSeqs ==
    UNION {[1..n -> ChatMessages] : n \in 0..MaxChatMessages}

RequestBodies ==
    {[kind |-> "absent", messages |-> <<>>], [kind |-> "string", messages |-> <<>>]}
        \cup {[kind |-> "array", messages |-> ms] : ms \in ChatMessageSeqs}

\* what axios.post does: the reply of Ollama, a reply without message
\* content (line 535), or the errors of lines 553-578 and any other error
Upstreams ==
    {"reply", "noContent", "ECONNREFUSED", "ENOTFOUND", "404", "ETIMEDOUT", "other"}

\* line 498
validRoles == {"user", "assistant", "system"}

\* the tests of lines 493 and 499 for one element of the array
badFormat(message) == message.role = "" \/ message.content = ""

badRole(message) == message.role \notin validRoles

\* lines 492-504: the index of the element at which the loop ends the
\* request (0 when it ends at none)
firstStop(ms) ==
    LET stops == {i \in 1..Len(ms) :
                     ms[i].kind = "null" \/ badFormat(ms[i]) \/ badRole(ms[i])}
    IN  IF stops = {} THEN 0 ELSE CHOOSE i \in stops : \A j \in stops : i <= j

\* lines 553-584: the status the catch block answers with
catchStatus(error) ==
    IF error = "ECONNREFUSED" THEN 503
    ELSE IF error = "ENOTFOUND" THEN 503
    ELSE IF error = "404" THEN 404
    ELSE IF error = "ETIMEDOUT" THEN 408
    ELSE 500

\* lines 480-588: the status of the response and whether axios.post was
\* called.  Reading the role of null throws a TypeError, which the catch
\* block answers as any other error
chatResponse(body, upstream) ==
    IF body.kind # "array" THEN [status |-> 400, forwarded |-> FALSE]
    ELSE Bind(firstStop(body.messages), LAMBDA k :
         IF k # 0
         THEN IF body.messages[k].kind = "null"
              THEN [status |-> catchStatus("TypeError"), forwarded |-> FALSE]
              ELSE [status |-> 400, forwarded |-> FALSE]
         ELSE IF upstream = "reply" THEN [status |-> 200, forwarded |-> TRUE]
         ELSE IF upstream = "noContent"
              THEN [status |-> catchStatus("Error"), forwarded |-> TRUE]
         ELSE [status |-> catchStatus(upstream), forwarded |-> TRUE])

Listens(i) == servers[i].state = "listening"

\* a server of this process accepts connections
Serving == ~exited /\ \E i \in 1..Len(servers) : Listens(i)

\* lines 597-606: process.server.address() is null when that server does
\* not listen, reading its port throws, and the error handler of lines
\* 621-627 answers 500
configResponse ==
    IF processServer = 0 THEN [status |-> 200, port |-> PORT]
    ELSE IF Listens(processServer)
         THEN [status |-> 200, port |-> servers[processServer].port]
         ELSE [status |-> 500, port |-> 0]

ServerInit ==
    /\ input = ""
    /\ content = ""
    /\ codeBlocks = <<>>
    /\ inlineCodes = <<>>
    /\ fenced = 0
    /\ pc = "idle"
    /\ RendererIdle
    /\ ChatIdle
    /\ SessionIdle
    /\ occupied \in SUBSET (PORT .. PORT + MaxOccupied - 1)
    /\ servers = <<>>
    /\ processServer = 0
    /\ exited = FALSE
    /\ reply = [route |-> "none", status |-> 0]
    /\ forwarded = FALSE

\* lines 896-899 and 832-844, 891: startServer(PORT) calls app.listen and
\* returns the server, and the callback of then, which runs before any
\* event of the server, stores it in process.server
StartServer ==
    /\ servers = <<>>
    /\ ~exited
    /\ servers' = <<[port |-> PORT, state |-> "starting"]>>
    /\ processServer' = 1
    /\ UNCHANGED <<occupied, exited, reply, forwarded>>
    /\ UNCHANGED <<pipelineVars, rendererVars, chatVars, sessionVars>>

\* lines 844-879: the port is free and the callback of app.listen runs
Listening(i) ==
    /\ ~exited
    /\ servers[i].state = "starting"
    /\ servers[i].port \notin occupied
    /\ servers' = [servers EXCEPT ![i].state = "listening"]
    /\ UNCHANGED <<occupied, processServer, exited, reply, forwarded>>
    /\ UNCHANGED <<pipelineVars, rendererVars, chatVars, sessionVars>>

\* lines 881-884 and 832-844: the port is in use, the handler of the error
\* calls startServer(port + 1), whose result nothing stores
AddressInUse(i) ==
    /\ ~exited
    /\ servers[i].state = "starting"
    /\ servers[i].port \in occupied
    /\ servers' = Append([servers EXCEPT ![i].state = "failed"],
                         [port |-> servers[i].port + 1, state |-> "starting"])
    /\ UNCHANGED <<occupied, processServer, exited, reply, forwarded>>
    /\ UNCHANGED <<pipelineVars, rendererVars, chatVars, sessionVars>>

\* lines 885-888: any other error of the server ends the process
ListenError(i) ==
    /\ ~exited
    /\ servers[i].state = "starting"
    /\ exited' = TRUE
    /\ UNCHANGED <<occupied, servers, processServer, reply, forwarded>>
    /\ UNCHANGED <<pipelineVars, rendererVars, chatVars, sessionVars>>

\* lines 597-606
GetConfig ==
    /\ Serving
    /\ reply' = [route |-> "/config", status |-> configResponse.status,
                 port |-> configResponse.port]
    /\ forwarded' = FALSE
    /\ UNCHANGED <<occupied, servers, processServer, exited>>
    /\ UNCHANGED <<pipelineVars, rendererVars, chatVars, sessionVars>>

\* lines 480-588
PostChat(body, upstream) ==
    /\ Serving
    /\ reply' = [route |-> "/api/chat", body |-> body,
                 status |-> chatResponse(body, upstream).status]
    /\ forwarded' = chatResponse(body, upstream).forwarded
    /\ UNCHANGED <<occupied, servers, processServer, exited>>
    /\ UNCHANGED <<pipelineVars, rendererVars, chatVars, sessionVars>>

ServerNext ==
    \/ StartServer
    \/ \E i \in 1..Len(servers) : Listening(i)
    \/ \E i \in 1..Len(servers) : AddressInUse(i)
    \/ \E i \in 1..Len(servers) : ListenError(i)
    \/ GetConfig
    \/ \E body \in RequestBodies, upstream \in Upstreams : PostChat(body, upstream)

ServerSpec == ServerInit /\ [][ServerNext]_vars

---------------------------------------------------------------------------
(* The sessions: ChatDatabase (lines 14-197), ChatHistory (lines 202-442)   *)
(* and the session handlers of ChatApp (initializeApp 475-495,              *)
(* createNewSession 748-758, loadSession 763-785, renameSession 790-801,    *)
(* deleteSession 806-826).  A session is its id (a number stands for the    *)
(* string of line 241, which is new each time) and its title; the order of  *)
(* the object store stands for lastActivity, most recent first, as          *)
(* getAllSessions sorts it (lines 65-68).  A message is the number of the   *)
(* call of sendMessage it belongs to, its role and its session.             *)

\* line 207
maxSessions == 50

MaxStored == 2

MaxSessionIds == 3

MaxSends == 1

\* line 420: the title of a session that was not renamed
DefaultTitle == "Chat"

\* the title the user enters in the prompt of line 791
NewTitle == "renamed"

Prepend(x, seq) == <<x>> \o seq

HasSession(seq, id) == \E i \in 1..Len(seq) : seq[i].id = id

SessionOf(seq, id) == seq[CHOOSE i \in 1..Len(seq) : seq[i].id = id]

WithoutSession(seq, id) == SelectSeq(seq, LAMBDA x : x.id # id)

\* lines 92-101, store.put of a session whose lastActivity is unchanged: the stored
\* session with its id is replaced and keeps its place
putSession(seq, session) ==
    [i \in 1..Len(seq) |-> IF seq[i].id = session.id THEN session ELSE seq[i]]

\* store.put of a session whose lastActivity is now, and lines 357-364 for
\* the array: the session becomes the most recent one
touchSession(seq, session) ==
    IF HasSession(seq, session.id) THEN Prepend(session, WithoutSession(seq, session.id))
    ELSE seq

\* lines 186-196: the sessions beyond the first max are deleted
pruneOldSessions(db, max) == IF Len(db) > max THEN SubSeq(db, 1, max) ELSE db

\* lines 106-129 for the object store messages
MessagesOfStored(msgs, db) == SelectSeq(msgs, LAMBDA m : HasSession(db, m.session))

\* lines 240-248
NewSession == [id |-> nextId, title |-> DefaultTitle]

\* lines 251 and 256: the session is stored and the store is pruned
dbAfterCreate(db) == pruneOldSessions(Prepend(NewSession, db), maxSessions)

\* line 252
listAfterCreate(list) == Prepend(NewSession, list)

\* lines 134-150 and 770-775: the stored messages of a session as the chat
\* container shows them
SessionView(msgs, id) ==
    SelectSeq(msgs, LAMBDA m : m.session = id)

IdleOps ==
    /\ sendOp = [pc |-> "idle"]
    /\ renameOp = [pc |-> "idle"]
    /\ activityOp = [pc |-> "idle"]

StoredSessions(k) == [i \in 1..k |-> [id |-> k + 1 - i, title |-> DefaultTitle]]

\* the page is opened with up to MaxStored sessions in the database
SessionInit ==
    /\ input = ""
    /\ content = ""
    /\ codeBlocks = <<>>
    /\ inlineCodes = <<>>
    /\ fenced = 0
    /\ pc = "idle"
    /\ RendererIdle
    /\ ChatIdle
    /\ ServerIdle
    /\ \E k \in 0..MaxStored :
           /\ dbSessions = StoredSessions(k)
           /\ nextId = k + 1
    /\ dbMessages = <<>>
    /\ sessions = <<>>
    /\ currentSessionId = 0
    /\ view = <<>>
    /\ lastOp = [name |-> "start", arg |-> 0]
    /\ IdleOps

Initialized == lastOp.name # "start"

\* a handler other than initializeApp and deleteSession ran last
OtherOp == [name |-> "other", arg |-> 0]

\* the session a message is saved to: lines 289-292
SaveTarget == IF currentSessionId = 0 THEN nextId ELSE currentSessionId

\* lines 288-312: ChatHistory.saveMessage creates a session when none is
\* current, stores the message under currentSessionId and updates the
\* activity of the session; line 1197 schedules the debounced update
SaveMessage(n, role) ==
    /\ Bind(IF currentSessionId = 0 THEN dbAfterCreate(dbSessions) ELSE dbSessions,
            LAMBDA db :
            /\ dbSessions' = IF HasSession(db, SaveTarget)
                             THEN touchSession(db, SessionOf(db, SaveTarget))
                             ELSE db
            /\ dbMessages' = Append(MessagesOfStored(dbMessages, db),
                                    [n |-> n, role |-> role, session |-> SaveTarget]))
    /\ Bind(IF currentSessionId = 0 THEN listAfterCreate(sessions) ELSE sessions,
            LAMBDA list :
            sessions' = IF HasSession(dbSessions', SaveTarget)
                        THEN touchSession(list, SessionOf(dbSessions', SaveTarget))
                        ELSE list)
    /\ currentSessionId' = SaveTarget
    /\ nextId' = IF currentSessionId = 0 THEN nextId + 1 ELSE nextId
    /\ activityOp' = IF activityOp.pc = "idle" THEN [pc |-> "scheduled"] ELSE activityOp

\* lines 475-495: the sessions are loaded (lines 215-235); a session is
\* created when the list is empty or no session is current, else
\* loadSession is called with the id of the array (line 490-491), which is
\* undefined, and shows its error
InitializeApp ==
    /\ lastOp.name = "start"
    /\ lastOp' = [name |-> "initializeApp", arg |-> Len(dbSessions)]
    /\ IF Len(dbSessions) = 0 \/ currentSessionId = 0
       THEN /\ dbSessions' = dbAfterCreate(dbSessions)
            /\ dbMessages' = MessagesOfStored(dbMessages, dbSessions')
            /\ sessions' = listAfterCreate(dbSessions)
            /\ currentSessionId' = nextId
            /\ nextId' = nextId + 1
            /\ view' = view
       ELSE /\ sessions' = dbSessions
            /\ UNCHANGED <<dbSessions, dbMessages, currentSessionId, view, nextId>>
    /\ UNCHANGED <<sendOp, renameOp, activityOp>>
    /\ UNCHANGED <<pipelineVars, rendererVars, chatVars, serverVars>>

\* lines 748-758
CreateNewSession ==
    /\ Initialized
    /\ lastOp' = OtherOp
    /\ dbSessions' = dbAfterCreate(dbSessions)
    /\ dbMessages' = MessagesOfStored(dbMessages, dbSessions')
    /\ sessions' = listAfterCreate(sessions)
    /\ currentSessionId' = nextId
    /\ nextId' = nextId + 1
    /\ view' = <<>>
    /\ UNCHANGED <<sendOp, renameOp, activityOp>>
    /\ UNCHANGED <<pipelineVars, rendererVars, chatVars, serverVars>>

\* lines 763-785 and 268-283: a session of the list is opened; when the
\* database does not hold it the error is shown and nothing changes
LoadSession(id) ==
    /\ Initialized
    /\ HasSession(sessions, id)
    /\ lastOp' = OtherOp
    /\ IF HasSession(dbSessions, id)
       THEN /\ currentSessionId' = id
            /\ view' = SessionView(dbMessages, id)
       ELSE UNCHANGED <<currentSessionId, view>>
    /\ UNCHANGED <<dbSessions, dbMessages, sessions, nextId, sendOp, renameOp, activityOp>>
    /\ UNCHANGED <<pipelineVars, rendererVars, chatVars, serverVars>>

\* the session a running renameSession or updateSessionActivity read
HeldByOp(id) ==
    \/ renameOp.pc # "idle" /\ renameOp.id = id
    \/ activityOp.pc \in {"read", "saved"} /\ activityOp.id = id

\* lines 806-826 and 396-411: ChatHistory.deleteSession deletes the session
\* and its messages, removes it from the list and sets currentSessionId to
\* null when it was the current one; then line 815 compares the id with
\* currentSessionId
DeleteSession(id) ==
    /\ Initialized
    /\ HasSession(sessions, id)
    /\ ~HeldByOp(id)
    /\ lastOp' = [name |-> "deleteSession", arg |-> IF currentSessionId = id THEN 1 ELSE 0]
    /\ Bind(IF currentSessionId = id THEN 0 ELSE currentSessionId, LAMBDA current :
            IF id = current
            THEN /\ view' = <<>>
                 /\ dbSessions' = dbAfterCreate(WithoutSession(dbSessions, id))
                 /\ sessions' = listAfterCreate(WithoutSession(sessions, id))
                 /\ currentSessionId' = nextId
                 /\ nextId' = nextId + 1
            ELSE /\ dbSessions' = WithoutSession(dbSessions, id)
                 /\ sessions' = WithoutSession(sessions, id)
                 /\ currentSessionId' = current
                 /\ UNCHANGED <<view, nextId>>)
    /\ dbMessages' = MessagesOfStored(dbMessages, dbSessions')
    /\ UNCHANGED <<sendOp, renameOp, activityOp>>
    /\ UNCHANGED <<pipelineVars, rendererVars, chatVars, serverVars>>

\* the number of the next call of sendMessage: none of the messages stored
\* or shown has it
NextSend ==
    1 + Cardinality({dbMessages[i].n : i \in 1..Len(dbMessages)}
                        \cup {view[i].n : i \in 1..Len(view)})

\* lines 1007-1020 and addMessage('user', ...) (lines 1165-1207): the
\* message is shown and saved, and the request is sent
SendUserMessage ==
    /\ Initialized
    /\ sendOp.pc = "idle"
    /\ lastOp' = OtherOp
    /\ NextSend <= MaxSends
    /\ view' = Append(view, [n |-> NextSend, role |-> "user", session |-> SaveTarget])
    /\ SaveMessage(NextSend, "user")
    /\ sendOp' = [pc |-> "fetch", n |-> NextSend]
    /\ UNCHANGED renameOp
    /\ UNCHANGED <<pipelineVars, rendererVars, chatVars, serverVars>>

\* lines 1022-1024 and 1174-1179: the reply arrives, is pushed and shown in
\* the chat container, and is streamed
ShowReply ==
    /\ sendOp.pc = "fetch"
    /\ lastOp' = OtherOp
    /\ view' = Append(view, [n |-> sendOp.n, role |-> "assistant",
                             session |-> currentSessionId])
    /\ sendOp' = [pc |-> "streaming", n |-> sendOp.n]
    /\ UNCHANGED <<dbSessions, dbMessages, sessions, currentSessionId, nextId,
                   renameOp, activityOp>>
    /\ UNCHANGED <<pipelineVars, rendererVars, chatVars, serverVars>>

\* lines 1190-1204: the reply was streamed and is saved
SaveReply ==
    /\ sendOp.pc = "streaming"
    /\ lastOp' = OtherOp
    /\ SaveMessage(sendOp.n, "assistant")
    /\ sendOp' = [pc |-> "idle"]
    /\ UNCHANGED <<view, renameOp>>
    /\ UNCHANGED <<pipelineVars, rendererVars, chatVars, serverVars>>

\* lines 1029-1036: the request fails
RequestFails ==
    /\ sendOp.pc = "fetch"
    /\ lastOp' = OtherOp
    /\ sendOp' = [pc |-> "idle"]
    /\ UNCHANGED <<dbSessions, dbMessages, sessions, currentSessionId, view, nextId,
                   renameOp, activityOp>>
    /\ UNCHANGED <<pipelineVars, rendererVars, chatVars, serverVars>>

\* lines 790-793 and 376: renameSession is called for a session of the list
\* and reads it from the database
RenameRead(id) ==
    /\ Initialized
    /\ renameOp.pc = "idle"
    /\ HasSession(sessions, id)
    /\ HasSession(dbSessions, id)
    /\ SessionOf(sessions, id).title # NewTitle
    /\ lastOp' = OtherOp
    /\ renameOp' = [pc |-> "read", id |-> id, session |-> SessionOf(dbSessions, id)]
    /\ UNCHANGED <<dbSessions, dbMessages, sessions, currentSessionId, view, nextId,
                   sendOp, activityOp>>
    /\ UNCHANGED <<pipelineVars, rendererVars, chatVars, serverVars>>

\* lines 378-379: the title is set on the session that was read, which is
\* stored
RenameSave ==
    /\ renameOp.pc = "read"
    /\ lastOp' = OtherOp
    /\ dbSessions' = putSession(dbSessions, [renameOp.session EXCEPT !.title = NewTitle])
    /\ renameOp' = [pc |-> "saved", id |-> renameOp.id,
                    session |-> [renameOp.session EXCEPT !.title = NewTitle]]
    /\ UNCHANGED <<dbMessages, sessions, currentSessionId, view, nextId, sendOp, activityOp>>
    /\ UNCHANGED <<pipelineVars, rendererVars, chatVars, serverVars>>

\* lines 381-385: the session replaces its entry of the list
RenameDone ==
    /\ renameOp.pc = "saved"
    /\ lastOp' = OtherOp
    /\ sessions' = putSession(sessions, renameOp.session)
    /\ renameOp' = [pc |-> "idle"]
    /\ UNCHANGED <<dbSessions, dbMessages, currentSessionId, view, nextId, sendOp, activityOp>>
    /\ UNCHANGED <<pipelineVars, rendererVars, chatVars, serverVars>>

\* lines 1212-1220 and 347: the debounced update runs for the session that
\* is current then, and reads it from the database
ActivityRead ==
    /\ activityOp.pc = "scheduled"
    /\ lastOp' = OtherOp
    /\ activityOp' = IF currentSessionId # 0 /\ HasSession(dbSessions, currentSessionId)
                     THEN [pc |-> "read", id |-> currentSessionId,
                           session |-> SessionOf(dbSessions, currentSessionId)]
                     ELSE [pc |-> "idle"]
    /\ UNCHANGED <<dbSessions, dbMessages, sessions, currentSessionId, view, nextId,
                   sendOp, renameOp>>
    /\ UNCHANGED <<pipelineVars, rendererVars, chatVars, serverVars>>

\* lines 349-353: the session that was read is stored with a new
\* lastActivity
ActivitySave ==
    /\ activityOp.pc = "read"
    /\ lastOp' = OtherOp
    /\ dbSessions' = touchSession(dbSessions, activityOp.session)
    /\ activityOp' = [activityOp EXCEPT !.pc = "saved"]
    /\ UNCHANGED <<dbMessages, sessions, currentSessionId, view, nextId, sendOp, renameOp>>
    /\ UNCHANGED <<pipelineVars, rendererVars, chatVars, serverVars>>

\* lines 355-365: the session replaces its entry of the list and moves to
\* the top
ActivityDone ==
    /\ activityOp.pc = "saved"
    /\ lastOp' = OtherOp
    /\ sessions' = touchSession(sessions, activityOp.session)
    /\ activityOp' = [pc |-> "idle"]
    /\ UNCHANGED <<dbSessions, dbMessages, currentSessionId, view, nextId, sendOp, renameOp>>
    /\ UNCHANGED <<pipelineVars, rendererVars, chatVars, serverVars>>

SessionNext ==
    \/ InitializeApp
    \/ CreateNewSession /\ nextId <= MaxSessionIds
    \/ \E id \in 1..MaxSessionIds : LoadSession(id)
    \/ \E id \in 1..MaxSessionIds : DeleteSession(id)
    \/ SendUserMessage /\ nextId <= MaxSessionIds
    \/ ShowReply
    \/ SaveReply
    \/ RequestFails
    \/ \E id \in 1..MaxSessionIds : RenameRead(id)
    \/ RenameSave
    \/ RenameDone
    \/ ActivityRead
    \/ ActivitySave
    \/ ActivityDone

SessionSpec == SessionInit /\ [][SessionNext]_vars

\* the ids of the sessions of a sequence
SessionIds(seq) == {seq[i].id : i \in 1..Len(seq)}

PruneMargin == 2

\* the ids of the sessions that are created reach beyond maxSessions
MaxPruneIds == maxSessions + PruneMargin

MaxPruneDeletes == 1

\* the sessions deleteSession removed from the list: no other code removes
\* a session from it
Deleted == nextId - 1 - Len(sessions)

\* the first and the last session of the list
EndsOfList == IF sessions = <<>> THEN {} ELSE {sessions[1].id, sessions[Len(sessions)].id}

\* the page is opened with a database that is full or nearly full
PruneInit ==
    /\ input = ""
    /\ content = ""
    /\ codeBlocks = <<>>
    /\ inlineCodes = <<>>
    /\ fenced = 0
    /\ pc = "idle"
    /\ RendererIdle
    /\ ChatIdle
    /\ ServerIdle
    /\ \E k \in (maxSessions - PruneMargin)..maxSessions :
           /\ dbSessions = StoredSessions(k)
           /\ nextId = k + 1
    /\ dbMessages = <<>>
    /\ sessions = <<>>
    /\ currentSessionId = 0
    /\ view = <<>>
    /\ lastOp = [name |-> "start", arg |-> 0]
    /\ IdleOps

\* sessions are created, one of the sessions at the ends of the list may
\* be deleted, and a message is sent
PruneNext ==
    \/ InitializeApp
    \/ CreateNewSession /\ nextId <= MaxPruneIds
    \/ \E id \in EndsOfList : DeleteSession(id) /\ Deleted < MaxPruneDeletes
    \/ SendUserMessage /\ nextId <= MaxPruneIds
    \/ RequestFails
    \/ ShowReply
    \/ SaveReply
    \/ ActivityRead
    \/ ActivitySave
    \/ ActivityDone

PruneSpec == PruneInit /\ [][PruneNext]_vars

---------------------------------------------------------------------------
(* What the properties below speak of *)

RECURSIVE Occurrences(_, _, _)
\* how many times lit occurs in s from index i on
Occurrences(s, lit, i) ==
    LET k == IndexFrom(s, lit, i)
    IN  IF k = 0 THEN 0 ELSE 1 + Occurrences(s, lit, k + Len(lit))

\* the text a browser shows for escaped text
decodeHtml(t) ==
    ReplaceAllLit(ReplaceAllLit(ReplaceAllLit(t, "&lt;", "<"), "&gt;", ">"), "&amp;", "&")

\* the texts of the code elements of an HTML text
CodeElementTexts(s) ==
    {Sub(s, IndexFrom(s, ">", p) + 1, IndexFrom(s, "</code>", p) - 1) :
        p \in {q \in 1..Len(s) : StartsAt(s, q, "<code") /\ IndexFrom(s, "</code>", q) # 0}}

\* a text without its leading and trailing blank lines
StripBlankLines(t) ==
    LET lines == SplitOn(t, "\n")
        a     == First(1, Len(lines), LAMBDA k : Trim(lines[k]) # "")
        b     == Last(1, Len(lines), LAMBDA k : Trim(lines[k]) # "")
    IN  IF b < a THEN "" ELSE Join(SubSeq(lines, a, b), "\n")

\* the placeholders the protection passes have created
Placeholders ==
    {codeBlockPlaceholder(k - 1) : k \in 1..Len(codeBlocks)}
        \cup {inlineCodePlaceholder(k - 1) : k \in 1..Len(inlineCodes)}

\* the input holds no dollar sign and no text of the placeholder form
NoDollarNoPlaceholderText ==
    /\ ~Includes(input, "$")
    /\ ~Includes(input, "__CODE_BLOCK_")
    /\ ~Includes(input, "__INLINE_CODE_")

RECURSIVE InsertLiterally(_, _, _, _)
\* s with the first occurrence of the i-th, (i+1)-th, ... placeholder of the
\* given prefix replaced by the stored fragment, character for character
InsertLiterally(s, prefix, fragments, i) ==
    IF i > Len(fragments) THEN s
    ELSE LET ph == prefix \o NumStr(i - 1) \o "__"
             k  == IndexFrom(s, ph, 1)
         IN  InsertLiterally(IF k = 0 THEN s
                             ELSE Sub(s, 1, k - 1) \o fragments[i] \o From(s, k + Len(ph)),
                             prefix, fragments, i + 1)

\* tags of the input messages that no formatter pass writes
InputTags == {"<script>", "<img ", "<b>"}

\* plain text: letters, blanks, newlines, the ampersand, the less-than sign
\* and the full stop, with at least one visible character
IsPlainText(s) ==
    /\ Trim(s) # ""
    /\ \A i \in 1..Len(s) :
           At(s, i) \in LowerChars \cup UpperChars \cup {" ", "\n", "&", "<", "."}

\* one code block and nothing else
IsSingleCodeBlock(s) ==
    /\ StartsAt(s, 1, "<pre><code")
    /\ From(s, Len(s) - 12) = "</code></pre>"
    /\ Occurrences(s, "<pre>", 1) = 1

---------------------------------------------------------------------------
(* Properties of formatContent *)

\* C1: for a message that is one fenced block, the returned HTML holds a code
\* element whose decoded text is the fenced body, up to leading and trailing
\* blank lines.
C1_FencedBodyRoundTrip ==
    pc = "done" =>
        \A l \in Languages, b \in Bodies :
            input = FencedMessage("", l, b, "") =>
                \E t \in CodeElementTexts(content) :
                    StripBlankLines(decodeHtml(t)) = StripBlankLines(b)

\* C2: the returned HTML never holds a tag of the input as live markup.
C2_NoInputTagInOutput ==
    pc = "done" => \A tag \in InputTags : Includes(input, tag) => ~Includes(content, tag)

\* C3: for plain text the returned HTML is exactly one paragraph element
\* around the escaped text, its newlines written as line breaks.
C3_PlainTextOneParagraph ==
    (pc = "done" /\ IsPlainText(input)) =>
        content = "<p>" \o ReplaceAllLit(escapeHtml(Trim(input)), "\n", "<br>") \o "</p>"

\* C4: when formatContent returns, no placeholder created during protection
\* remains in the output and no stored fragment appears more often than it
\* was stored (stated for inputs without a dollar sign and without text of
\* the placeholder form).
C4_PlaceholdersAllRestored ==
    (pc = "done" /\ NoDollarNoPlaceholderText) =>
        /\ \A ph \in Placeholders : ~Includes(content, ph)
        /\ \A k \in 1..Len(codeBlocks) :
               Occurrences(content, codeBlocks[k], 1)
                   <= Cardinality({j \in 1..Len(codeBlocks) : codeBlocks[j] = codeBlocks[k]})

\* C5: no formatter pass (tables, headers, lists, blockquotes, rules,
\* emphasis, strikethrough, links, paragraphs) deletes or duplicates a
\* placeholder: every placeholder occurs after the pass as often as before.
C5_PassesKeepPlaceholders ==
    [][(\E k \in 1..Len(FormatterPasses) : pc = FormatterPasses[k]) =>
           \A ph \in Placeholders :
               Occurrences(content', ph, 1) = Occurrences(content, ph, 1)]_vars

\* C6: restoration puts each stored fragment, character for character, in
\* the place of its placeholder, in index order.
C6_RestorationIsLiteral ==
    [][/\ pc = "restoreBlocks" =>
              content' = InsertLiterally(content, "__CODE_BLOCK_", codeBlocks, 1)
       /\ pc = "restoreInline" =>
              content' = InsertLiterally(content, "__INLINE_CODE_", inlineCodes, 1)]_vars

\* C7: for an input that starts with the literal text __CODE_BLOCK_0__ and
\* then holds a fenced block, the output holds the literal text, unchanged,
\* before the code block (stated for inputs that do not take the bypass and
\* hold no dollar sign).
C7_LiteralPlaceholderTextKept ==
    (/\ pc = "done"
     /\ ~hasHTMLTags(input)
     /\ ~Includes(input, "$")
     /\ \E b \in BodyTokens : input = FencedMessage("__CODE_BLOCK_0__ ", "", b, "")) =>
        LET lit == IndexFrom(content, "__CODE_BLOCK_0__", 1)
            blk == IndexFrom(content, "<pre>", 1)
        IN  lit # 0 /\ blk # 0 /\ lit < blk

\* C8: when the fence pass has extracted a block, the final unformatted-code
\* pass leaves the output as it is.
C8_FinalPassSkipsFenced ==
    [][(pc = "final" /\ fenced > 0) => content' = content]_vars

\* C9: an unfenced message with at least three C-family indicators is
\* returned as one code block around the whole message.
C9_UnfencedCodeDetected ==
    (/\ pc = "done"
     /\ ~Includes(input, Fence)
     /\ codeIndicatorCount(input) >= CodeIndicatorThreshold) =>
        IsSingleCodeBlock(content)

\* C10: an unfenced message with fewer than three C-family indicators and
\* fewer than two script indicators is never returned with a code block.
C10_ProseStaysProse ==
    (/\ pc = "done"
     /\ ~Includes(input, Fence)
     /\ codeIndicatorCount(input) < CodeIndicatorThreshold
     /\ otherCodeCount(input) < OtherCodeThreshold) =>
        ~Includes(content, "<pre>")

\* the spec's table style: no leading or trailing pipe
SpecStyleTables == {"a|b\n--|--\n1|2", "a|b\n--|--\n1|2\n3|4|5"}

\* C11: a table written in the spec's style (header a|b, separator --|--,
\* data rows 1|2 and 3|4|5) is rendered as a table with one header row of two
\* cells and one body row for the two-cell data row; the three-cell row is
\* dropped.
C11_SpecStyleTableRendered ==
    (pc = "done" /\ input \in SpecStyleTables) =>
        /\ Occurrences(content, "<th>", 1) = 2
        /\ Occurrences(content, "<tr>", 1) = 2
        /\ Occurrences(content, "<td>", 1) = 2
        /\ ~Includes(content, "5")

\* the marker type of a line: "ul", "ol" or "" for a line that is no item
MarkerType(line) ==
    LET trimmed == Trim(line)
    IN  IF isUnorderedItem(trimmed) THEN "ul"
        ELSE IF isOrderedItem(trimmed) THEN "ol" ELSE ""

\* the text of an item line, without its marker
ItemText(line) ==
    LET trimmed == Trim(line)
    IN  IF MarkerType(line) = "ul" THEN unorderedText(trimmed) ELSE orderedText(trimmed)

\* the last line of the maximal run of lines of one marker type that holds line i
RunLast(lines, i) ==
    CHOOSE e \in i..Len(lines) :
        /\ \A k \in i..e : MarkerType(lines[k]) = MarkerType(lines[i])
        /\ e < Len(lines) => MarkerType(lines[e + 1]) # MarkerType(lines[i])

RECURSIVE ListPerRun(_, _)
\* one list element per maximal run, the other lines as they are
ListPerRun(lines, i) ==
    IF i > Len(lines) THEN <<>>
    ELSE IF MarkerType(lines[i]) = "" THEN <<lines[i]>> \o ListPerRun(lines, i + 1)
    ELSE LET e == RunLast(lines, i)
         IN  <<processListItems([k \in 1..(e - i + 1) |-> ItemText(lines[i + k - 1])],
                                MarkerType(lines[i]))>>
                 \o ListPerRun(lines, e + 1)

\* C12: formatLists emits exactly one list element per maximal run of
\* consecutive lines of one marker type, with the items in input order; a
\* change of marker type or a line that is no item closes the list, and the
\* other lines are kept as they are.
C12_OneListPerRun ==
    pc = "listsReturned" =>
        content = Join(ListPerRun(SplitOn(input, "\n"), 1), "\n")

\* unordered, ordered, unordered: three adjacent lists, none merged
C12_Witness ==
    /\ pc = "listsReturned"
    /\ input = "- a\n1. c\n  * b\n- a"
    /\ Occurrences(content, "<ul ", 1) = 2
    /\ Occurrences(content, "<ol ", 1) = 1
    /\ Occurrences(content, "<li>", 1) = 4

\* the entities the bypass decodes, each with the character it stands for
Entities == {<<"&lt;", "<">>, <<"&gt;", ">">>, <<"&amp;", "&">>, <<"&quot;", "\"">>}

RECURSIVE DecodeOneLevel(_, _)
\* s from position i with every entity replaced once, left to right; the
\* text a replacement produces is not decoded again
DecodeOneLevel(s, i) ==
    LET p == First(i, Len(s), LAMBDA q : \E e \in Entities : StartsAt(s, q, e[1]))
    IN  IF p > Len(s) THEN From(s, i)
        ELSE LET e == CHOOSE e \in Entities : StartsAt(s, p, e[1])
             IN  Sub(s, i, p - 1) \o e[2] \o DecodeOneLevel(s, p + Len(e[1]))

\* C13: on the bypass path each entity is decoded exactly one level:
\* &amp;lt; becomes &lt; and &amp;quot; becomes &quot;.
C13_BypassDecodesOneLevel ==
    (pc = "done" /\ hasHTMLTags(input)) => content = DecodeOneLevel(input, 1)

\* C14: for an input with an opening fence and no closing fence, the text
\* from the fence to the end of the input is rendered as a code block.
C14_UnterminatedFenceIsCodeBlock ==
    (pc = "done" /\ ~hasHTMLTags(input) /\ Occurrences(input, Fence, 1) = 1) =>
        LET blk == IndexFrom(content, "<pre><code", 1)
        IN  /\ blk # 0
            /\ IndexFrom(content, "</code></pre>", blk) # 0
            /\ ~Includes(content, Fence)

\* position i of s lies inside a paragraph element: the last <p> before it
\* is not closed before it
InsideParagraph(s, i) ==
    LET open == Last(1, i - 1, LAMBDA q : StartsAt(s, q, "<p>"))
        close == Last(1, i - 1, LAMBDA q : StartsAt(s, q, "</p>"))
    IN  open >= 1 /\ close < open

\* C15: in the output for an input with a fenced code block, no pre element
\* lies inside a paragraph element.
C15_NoBlockInsideParagraph ==
    (pc = "done" /\ ~hasHTMLTags(input) /\ fenced > 0) =>
        \A i \in 1..Len(content) :
            StartsAt(content, i, "<pre>") => ~InsideParagraph(content, i)

\* a markup tag in s: <, an optional /, a letter, characters that are no
\* bracket, >
HasMarkupTag(s) ==
    \E i \in 1..Len(s) :
        /\ At(s, i) = "<"
        /\ \E j \in (i + 1)..Len(s) :
               /\ At(s, j) = ">"
               /\ At(s, IF At(s, i + 1) = "/" THEN i + 2 ELSE i + 1)
                      \in LowerChars \cup UpperChars
               /\ \A k \in (i + 1)..(j - 1) : At(s, k) \notin {"<", ">"}

\* C16: when the formatted text holds a markup tag, it reaches the content
\* area in one write: the content area is empty or holds the whole text, and
\* once the renderer has written, it holds the whole text after one write.
C16_HTMLCommittedInOneWrite ==
    (rs # "idle" /\ pc = "done" /\ HasMarkupTag(content)) =>
        /\ contentDiv \in {"", content}
        /\ contentWrites <= 1
        /\ rs \in {"usage", "done"} => (contentDiv = content /\ contentWrites = 1)

\* the table of the table formatter is in the content area after one write
C16_Witness ==
    /\ rs = "done"
    /\ input = "|a|b|\n|-|-|\n|1|2|\n"
    /\ Includes(content, "<table")
    /\ contentDiv = content
    /\ contentWrites = 1

\* C17: once the message element is removed from the chat container, no
\* write is made to its content area or to the message element.
C17_NoWriteAfterTeardown ==
    [][~attached =>
           (contentWrites' = contentWrites /\ elementWrites' = elementWrites)]_vars

\* IDLE, STREAMING, DONE as numbers
Phase(r) == IF r = "idle" THEN 0 ELSE IF r = "done" THEN 2 ELSE 1

RECURSIVE PowerOfTwo(_)
PowerOfTwo(n) == IF n = 0 THEN 1 ELSE 2 * PowerOfTwo(n - 1)

\* C19: callChatAPI retries with exponential backoff: the waits before the
\* retries of one request are 1000, 2000 and 4000 ms.
C19_ExponentialBackoff ==
    \A k \in 1..Len(waits) : waits[k] = 1000 * PowerOfTwo(k - 1)

\* C20: every request holds, after the system prompt, all the messages
\* exchanged so far, in their order, however many they are (stated for the
\* conversations whose messages were all saved).
C20_FullContextInRequest ==
    (chatPc = "fetch" /\ history = messages) =>
        request = <<systemMessage>> \o messages

\* s holds nothing but whitespace
IsWhitespace(s) == \A i \in 1..Len(s) : IsSpace(s, i)

C23_OneRequestInFlight ==
    /\ [](running <= 1)
    /\ [][(calls'.parity # calls.parity /\ isLoading) =>
              UNCHANGED <<messages, history, request, retryCount, waits, chatPc,
                          isLoading, activeRequest, running>>]_vars

\* a call of sendMessage returned while the request of the first message
\* was being fetched, and the request is still the only one
C23_Witness ==
    /\ calls.refused
    /\ isLoading
    /\ chatPc = "fetch"
    /\ running = 1
    /\ Len(messages) = 1

(* C24: every call of sendMessage that sets isLoading ends with isLoading *)
(* false and activeRequest null, and callChatAPI makes at most            *)
(* maxRetries + 1 attempts for one request.                               *)
C24_LoadingEnds ==
    /\ [](retryCount + 1 <= maxRetries + 1)
    /\ isLoading ~> (~isLoading /\ activeRequest = <<>>)

\* the request failed maxRetries + 1 times and the loading state is over
C24_Witness ==
    /\ ~isLoading
    /\ activeRequest = <<>>
    /\ chatPc = "ready"
    /\ retryCount = maxRetries
    /\ Len(waits) = maxRetries
    /\ Unanswered(messages) = 1


\* the body of a request lacks the array, or one of its messages lacks a
\* role or a content or has a role outside user, assistant, system
Malformed(body) ==
    \/ body.kind # "array"
    \/ \E i \in 1..Len(body.messages) :
           \/ body.messages[i].kind = "null"
           \/ badFormat(body.messages[i])
           \/ badRole(body.messages[i])

(* C21: a POST /api/chat request whose body has no messages array, or     *)
(* that holds a message without role or content or with a role outside    *)
(* user, assistant, system, is answered with status 400, and nothing is   *)
(* posted to Ollama for it.                                               *)
C21_MalformedAnswered400 ==
    (reply.route = "/api/chat" /\ Malformed(reply.body)) =>
        (reply.status = 400 /\ ~forwarded)

(* C22: GET /config answers with the port a server of the process         *)
(* listens on, also after startServer went on from a port in use to the   *)
(* next one.                                                              *)
C22_ConfigReportsListeningPort ==
    reply.route = "/config" =>
        /\ reply.status = 200
        /\ \E i \in 1..Len(servers) : Listens(i) /\ servers[i].port = reply.port


(* C25: when deleteSession has deleted the session that was open, the     *)
(* chat view is cleared and a session was created, so that                *)
(* currentSessionId is the id of a session that exists.                   *)
C25_DeleteOpenSessionStartsNew ==
    lastOp = [name |-> "deleteSession", arg |-> 1] =>
        /\ view = <<>>
        /\ currentSessionId # 0
        /\ HasSession(dbSessions, currentSessionId)
        /\ HasSession(sessions, currentSessionId)

(* C26: when initializeApp found a stored session, it has loaded the most *)
(* recent one and has created none; it has created a session only when    *)
(* it found none.                                                         *)
C26_StartupLoadsMostRecent ==
    lastOp.name = "initializeApp" =>
        IF lastOp.arg >= 1
        THEN /\ Len(dbSessions) = lastOp.arg
             /\ currentSessionId = dbSessions[1].id
        ELSE /\ Len(dbSessions) = 1
             /\ currentSessionId = dbSessions[1].id

\* the stored user message of the call of sendMessage with number n
UserMessagesOf(n) ==
    {i \in 1..Len(dbMessages) : dbMessages[i].n = n /\ dbMessages[i].role = "user"}

(* C28: the reply to a message is shown in and saved to the session the   *)
(* message was saved to, whatever session the user loads, creates or      *)
(* deletes while the request is in flight.                                *)
C28_ReplyInSessionOfItsMessage ==
    /\ \A i \in 1..Len(dbMessages) :
           dbMessages[i].role = "assistant" =>
               \A u \in UserMessagesOf(dbMessages[i].n) :
                   dbMessages[u].session = dbMessages[i].session
    /\ \A i \in 1..Len(view) :
           view[i].role = "assistant" =>
               \A u \in UserMessagesOf(view[i].n) :
                   dbMessages[u].session = view[i].session

\* the title the stored session with an id has ("" when there is none)
TitleIn(seq, id) == IF HasSession(seq, id) THEN SessionOf(seq, id).title ELSE ""

(* C29: once renameSession has completed for a session, no step of        *)
(* updateSessionActivity puts another title on the session, neither in    *)
(* the database nor in the list.                                          *)
C29_RenameNotOverwritten ==
    [][\A id \in 1..MaxSessionIds + 2 :
           renameOp.pc = "idle" =>
               /\ (TitleIn(dbSessions, id) = NewTitle /\ HasSession(dbSessions', id))
                      => TitleIn(dbSessions', id) = NewTitle
               /\ (TitleIn(sessions, id) = NewTitle /\ HasSession(sessions', id))
                      => TitleIn(sessions', id) = NewTitle]_vars


(* C30: after any sequence of createSession, deleteSession and            *)
(* saveMessage the list in memory and the database hold the same          *)
(* sessions, and neither holds more than maxSessions of them.             *)
C30_ListMatchesDatabase ==
    Initialized =>
        /\ SessionIds(sessions) = SessionIds(dbSessions)
        /\ Len(sessions) <= maxSessions
        /\ Len(dbSessions) <= maxSessions

=============================================================================
